---- MODULE Spec2Model ----
(***************************************************************************)
(* QuickLogic qlf_fasm: FASM <-> bitstream codec.                          *)
(*                                                                         *)
(* The model follows src/qlf_fasm/qlf_fasm.py (assembler, disassembler,    *)
(* driver), src/qlf_fasm/bitstream.py (txt and 4-byte encodings),         *)
(* src/qlf_fasm/database.py (device database) and                          *)
(* src/qlf_fasm_db_builder.py (database builder).                          *)
(*                                                                         *)
(* Strings that the code takes apart are modelled by their parts:          *)
(*   - a feature name "a.b.c" is the record of its dotted parts: the       *)
(*     prefix, the block tag and the sequence of local components;         *)
(*   - a block tag is the outcome of LOC_RE on it: whether it matched,     *)
(*     whether <name> starts with "grid_", the rest of <name> up to the    *)
(*     first "_", and the location (x, y);                                 *)
(*   - a local component is <<inverted, name>>: the text "NOT_" + name     *)
(*     when inverted, name otherwise.                                      *)
(* A bytearray or list is a sequence: Python's x[i] is x[i + 1] here.       *)
(***************************************************************************)
EXTENDS Integers, Sequences, FiniteSets, TLC

\* Python's None, where the code stores None in place of an integer
\* (set_feature.start, set_feature.end, the key of an unindexed segbit entry).
None == -1

\* Longest FASM file (number of lines) the assembler is run on.
MaxLines == 2

\* The most bits put into or taken out of the padding of a txt bitstream
MaxEdit == 2

FEATURE_PREFIX == "fpga_top"

\* -------------------------------------------------------------------------
\* Generic helpers

Range(s) == {s[i] : i \in DOMAIN s}

Zeros(n) == [a \in 1..n |-> 0]

EmptyDict == [k \in {} |-> 0]

Max(S) == CHOOSE m \in S : \A o \in S : o <= m

\* Op applied to the value of v: v is evaluated once, however often Op uses it
Bind(v, Op(_)) == CHOOSE r \in {Op(x) : x \in {v}} : TRUE

\* x >> n and x & 1 for the non-negative integers the code shifts
ShiftRight(x, n) == x \div (2 ^ n)

\* -------------------------------------------------------------------------
\* Database (database.py): Bit, regions, tiles, routing, segbits

Bit(index, value) == [idx |-> index, val |-> value]

\* A local feature component without / with the inversion prefix
C(name) == <<FALSE, name>>
NotC(name) == <<TRUE, name>>

\* Two regions of different lengths (region 1 is padded in the encodings).
\* The *_order fields keep what a Python dict keeps besides the mapping: the
\* order in which device.json and the segbits files list the entries.
DbRegions == (0 :> [offset |-> 0, length |-> 4]) @@ (1 :> [offset |-> 4, length |-> 2])

\* A database as the builder emits them: every pattern is one set bit and
\* the footprints are disjoint. Two clb tiles share one feature table.
DbPlain ==
    [ bitstream_size |-> 6,
      regions |-> DbRegions,
      tiles   |-> (<<0, 0>> :> [type |-> "clb", region |-> 0, offset |-> 0]) @@
                  (<<1, 0>> :> [type |-> "clb", region |-> 0, offset |-> 2]),
      routing |-> (<<0, 0>> :> ("sb" :> [type |-> "sb", variant |-> 0, region |-> 1, offset |-> 0])),
      segbits |-> ("clb"  :> (<<C("LUT_INIT")>> :> ((0 :> <<Bit(0, 1)>>) @@ (1 :> <<Bit(1, 1)>>)))) @@
                  ("sb_0" :> ((<<C("ROUTING"), C("SEL0")>> :> (None :> <<Bit(0, 1)>>)) @@
                              (<<C("ROUTING"), C("SEL1")>> :> (None :> <<Bit(1, 1)>>)))),
      tiles_order   |-> << <<0, 0>>, <<1, 0>> >>,
      routing_order |-> << <<0, 0>> >>,
      routing_kinds |-> (<<0, 0>> :> <<"sb">>),
      segbits_order |-> ("clb"  :> << <<C("LUT_INIT")>> >>) @@
                        ("sb_0" :> << <<C("ROUTING"), C("SEL0")>>, <<C("ROUTING"), C("SEL1")>> >>) ]

\* A hand-written database: patterns with cleared ("!i") bits and features
\* whose footprints overlap. Two tile types.
DbRich ==
    [ bitstream_size |-> 6,
      regions |-> DbRegions,
      tiles   |-> (<<0, 0>> :> [type |-> "clb", region |-> 0, offset |-> 0]) @@
                  (<<1, 0>> :> [type |-> "io", region |-> 0, offset |-> 2]),
      routing |-> (<<0, 0>> :> ("sb" :> [type |-> "sb", variant |-> 0, region |-> 1, offset |-> 0])),
      segbits |-> ("clb"  :> (<<C("LUT_INIT")>> :> ((0 :> <<Bit(0, 1)>>) @@ (1 :> <<Bit(1, 1)>>)))) @@
                  ("io"   :> (<<C("EN")>> :> (None :> <<Bit(0, 1), Bit(1, 0)>>))) @@
                  ("sb_0" :> ((<<C("ROUTING"), C("SEL0")>> :> (None :> <<Bit(0, 1), Bit(1, 0)>>)) @@
                              (<<C("ROUTING"), C("SEL1")>> :> (None :> <<Bit(0, 0), Bit(1, 1)>>)) @@
                              (<<C("ROUTING"), C("EN")>>   :> (None :> <<Bit(0, 1)>>)))),
      tiles_order   |-> << <<1, 0>>, <<0, 0>> >>,
      routing_order |-> << <<0, 0>> >>,
      routing_kinds |-> (<<0, 0>> :> <<"sb">>),
      segbits_order |-> ("clb"  :> << <<C("LUT_INIT")>> >>) @@
                        ("io"   :> << <<C("EN")>> >>) @@
                        ("sb_0" :> << <<C("ROUTING"), C("SEL0")>>, <<C("ROUTING"), C("SEL1")>>,
                                      <<C("ROUTING"), C("EN")>> >>) ]

Databases == {DbPlain, DbRich}

\* -------------------------------------------------------------------------
\* FASM lines (the records the fasm parser returns)

\* LOC_RE applied to a block tag
Tag(grid, name, x, y) == [m |-> TRUE, grid |-> grid, name |-> name, x |-> x, y |-> y]
BadTag == [m |-> FALSE, grid |-> FALSE, name |-> "clb", x |-> 0, y |-> 0]

Feature(prefix, tag, local) == [prefix |-> prefix, tag |-> tag, local |-> local]

SetFasmFeature(feature, start, end, value) ==
    [feature |-> feature, start |-> start, end |-> end, value |-> value]

\* A line holding a set_feature, and a line without one (comment, blank)
Line(feature, start, end, value) ==
    [has |-> TRUE, set_feature |-> SetFasmFeature(feature, start, end, value)]
CommentLine ==
    [has |-> FALSE, set_feature |-> SetFasmFeature(Feature("", BadTag, <<>>), None, None, 0)]

Clb00 == Tag(TRUE, "clb", 0, 0)
Clb10 == Tag(TRUE, "clb", 1, 0)
Io10  == Tag(TRUE, "io", 1, 0)
Sb00  == Tag(FALSE, "sb", 0, 0)

F_LUT00  == Feature(FEATURE_PREFIX, Clb00, <<C("LUT_INIT")>>)
F_NLUT00 == Feature(FEATURE_PREFIX, Clb00, <<NotC("LUT_INIT")>>)
F_LUT10  == Feature(FEATURE_PREFIX, Clb10, <<C("LUT_INIT")>>)
F_EN10   == Feature(FEATURE_PREFIX, Io10, <<C("EN")>>)
F_SEL0   == Feature(FEATURE_PREFIX, Sb00, <<C("ROUTING"), C("SEL0")>>)
F_NSEL0  == Feature(FEATURE_PREFIX, Sb00, <<C("ROUTING"), NotC("SEL0")>>)
F_SEL1   == Feature(FEATURE_PREFIX, Sb00, <<C("ROUTING"), C("SEL1")>>)
F_REN    == Feature(FEATURE_PREFIX, Sb00, <<C("ROUTING"), C("EN")>>)
F_NRSEL0 == Feature(FEATURE_PREFIX, Sb00, <<NotC("ROUTING"), C("SEL0")>>)
F_BOGUS  == Feature(FEATURE_PREFIX, Clb00, <<C("BOGUS")>>)
F_OTHER  == Feature("other_top", Clb00, <<C("LUT_INIT")>>)

\* The lines FASM files of the model are made of
FasmLines ==
    { Line(F_LUT00, 0, 1, 1),          \* LUT_INIT[1:0]=2'b01
      Line(F_LUT00, 0, 1, 3),          \* LUT_INIT[1:0]=2'b11
      Line(F_LUT00, 0, None, 0),       \* LUT_INIT[0]=1'b0
      Line(F_LUT00, 1, None, 1),       \* LUT_INIT[1]
      Line(F_LUT00, 1, 2, 3),          \* LUT_INIT[2:1]=2'b11, index 2 does not exist
      Line(F_NLUT00, 1, None, 1),      \* NOT_LUT_INIT[1]
      Line(F_LUT10, None, None, 1),    \* LUT_INIT of the block at (1, 0)
      Line(F_EN10, None, None, 1),
      Line(F_SEL0, None, None, 1),
      Line(F_SEL0, None, None, 0),
      Line(F_NSEL0, None, None, 1),
      Line(F_SEL1, None, None, 1),
      Line(F_REN, None, None, 1),
      Line(F_NRSEL0, None, None, 1),   \* NOT_ on a component that is not the last
      Line(F_BOGUS, None, None, 1),    \* block resolves, feature does not
      Line(F_BOGUS, None, None, 0),
      Line(F_BOGUS, 0, 1, 3),          \* BOGUS[1:0]=2'b11
      Line(F_BOGUS, 1, None, 0),       \* BOGUS[1]=1'b0
      Line(F_OTHER, None, None, 1),    \* prefix is not fpga_top
      Line(F_OTHER, None, None, 0),
      CommentLine }

\* -------------------------------------------------------------------------
\* canonical_features (qlf_fasm.py): split into single-bit features

OneFeature(feature, start, value) == [feature |-> feature, start |-> start, value |-> value]

canonical_features(sf) ==
    IF sf.start = None
    THEN << OneFeature(sf.feature, None, sf.value) >>
    ELSE IF sf.end = None
    THEN << OneFeature(sf.feature, IF sf.start = 0 THEN None ELSE sf.start, sf.value) >>
    ELSE [ i \in 1..(sf.end - sf.start + 1) |->
             LET address == sf.start + i - 1
                 value   == ShiftRight(sf.value, address - sf.start) % 2
             IN  OneFeature(sf.feature, IF address = 0 THEN None ELSE address, value) ]

\* -------------------------------------------------------------------------
\* State

VARIABLES
    database,            \* the loaded Database
    default_bitstream,   \* the seed handed to QlfFasmAssembler: [given, bits]
    bitstream,           \* QlfFasmAssembler.bitstream
    features,            \* QlfFasmAssembler.features: key -> <<value, line_str>>
    features_by_bits,    \* QlfFasmAssembler.features_by_bits: address -> set of line_str
    unknown_features,    \* assemble_bitstream's list of lines that raised LookupError
    fasm_lines,          \* the lines of the FASM file consumed so far, in order
    log,                 \* per consumed line: how process_fasm_line ended, its steps
    pc,                  \* position of the driver
    exit_status,         \* exit status of the process that ended last
    bitstream1,          \* a bitstream file: [written, format, with_crc, text, words]
    fasm1,               \* the FASM disassembled from bitstream1: [written, features, lines]
    bitstream2,          \* the bitstream file assembled from fasm1
    fasm2,               \* the FASM disassembled from bitstream2
    encoded,             \* a TextBitstream or FourByteBitstream object
    decoded,             \* the flat bit array to_bits returned last
    args                 \* the command line: [mode, no_crc, no_check_crc]

VARIABLES
    fabric,                   \* the <bit> elements of the fabric bitstream XML
    grouped_bits,             \* main's grouped_bits, with the order of its keys
    build_regions,            \* main's regions: id -> (offset, length)
    work,                     \* make_segbit_sets: [pending, type, locs, segbit_sets]
    item_at_loc,              \* main's item_at_loc
    total_bits_unflattened,   \* main's counter
    files,                    \* the segbits files written: name -> lines
    device                    \* device.json: [written, length, regions, tiles, routing]

vars == << database, default_bitstream, bitstream, features, features_by_bits,
           unknown_features, fasm_lines, log, pc, exit_status,
           bitstream1, fasm1, bitstream2, fasm2, encoded, decoded, args,
           fabric, grouped_bits, build_regions, work, item_at_loc,
           total_bits_unflattened, files, device >>

enc_vars == << encoded, decoded, args >>

asm_vars == << bitstream, features, features_by_bits, unknown_features, fasm_lines, log >>

build_vars == << fabric, grouped_bits, build_regions, work, item_at_loc,
                 total_bits_unflattened, files, device >>

NoWork == [pending |-> <<>>, type |-> "", locs |-> {}, segbit_sets |-> <<>>]
NoDevice == [written |-> FALSE, length |-> 0, regions |-> <<>>, tiles |-> <<>>, routing |-> <<>>]

\* The builder has not run
BuilderIdle ==
    /\ fabric = {}
    /\ grouped_bits = [order |-> <<>>, bits |-> EmptyDict]
    /\ build_regions = EmptyDict
    /\ work = NoWork
    /\ item_at_loc = EmptyDict
    /\ total_bits_unflattened = 0
    /\ files = EmptyDict
    /\ device = NoDevice

\* -------------------------------------------------------------------------
\* QlfFasmAssembler.process_fasm_line

\* The assembler's mutable state, as one value
Asm(bs, fs, fbb) == [bitstream |-> bs, features |-> fs, features_by_bits |-> fbb]

\* One step of the line's processing, recorded for the properties:
\* t = "feat": the feature-value check of one single-bit feature;
\* t = "bit":  one bit write. had/old are the table entry and the stored value
\* found before the step, by the line(s) the table names for it (the ones an
\* error message quotes), raised tells whether the step raised FeatureConflict.
Event(t, feature, idx, address, value, had, old, by, raised) ==
    [t |-> t, feature |-> feature, idx |-> idx, address |-> address,
     value |-> value, had |-> had, old |-> old, by |-> by, raised |-> raised]

\* Lines 214-222: a recorded key with another value is a conflict
FeatureValueConflict(had, value, other_value) == had /\ value # other_value

\* Variant: every check records its value and line, replacing what is stored
TrackFeature_Replace(fs, key, value, line_str, had) ==
    (key :> <<value, line_str>>) @@ fs

\* Lines 224-226: the first value seen for a key is recorded with its line
TrackFeature(fs, key, value, line_str, had) ==
    IF had THEN fs ELSE (key :> <<value, line_str>>) @@ fs

\* Variant: cleared features are looked up and applied like set ones
SkipCleared_Never(value) == FALSE

\* Lines 228-230: cleared features write no bits
SkipCleared(value) == value = 0

\* Variant: any stored value that differs is a conflict, written or not
BitConflict_AnyStored(had, value, old) == value # old

\* Variant: no write is a conflict, the last writer wins
BitConflict_Never(had, value, old) == FALSE

\* Lines 272-287: a bit written before in this call, to another value
BitConflict(had, value, old) == had /\ value # old

Result(out, asm, ev) == [out |-> out, asm |-> asm, ev |-> ev]

\* Lines 145-196: the block the feature names, its segbits and absolute offset
ResolveBlock(db, feature) ==
    LET fail == [ok |-> FALSE, segbits |-> EmptyDict, offset |-> 0]
        tag  == feature.tag
        loc  == <<tag.x, tag.y>>
    IN  IF 2 + Len(feature.local) < 3 \/ feature.prefix # FEATURE_PREFIX THEN fail
        ELSE IF ~tag.m THEN fail
        ELSE IF tag.grid
        THEN IF loc \notin DOMAIN db.tiles THEN fail
             ELSE IF tag.name \notin DOMAIN db.segbits THEN fail
             ELSE LET tile == db.tiles[loc]
                  IN  [ok |-> TRUE, segbits |-> db.segbits[tag.name],
                       offset |-> tile.offset + db.regions[tile.region].offset]
        ELSE IF loc \notin DOMAIN db.routing THEN fail
             ELSE IF tag.name \notin DOMAIN db.routing[loc] THEN fail
             ELSE LET sbox == db.routing[loc][tag.name]
                      segbits_name == tag.name \o "_" \o ToString(sbox.variant)
                  IN  IF segbits_name \notin DOMAIN db.segbits THEN fail
                      ELSE [ok |-> TRUE, segbits |-> db.segbits[segbits_name],
                            offset |-> sbox.offset + db.regions[sbox.region].offset]

\* Lines 233-241: the local name with NOT_ stripped from its last component
BaseName(local) ==
    [i \in 1..Len(local) |-> IF i = Len(local) THEN <<FALSE, local[i][2]>> ELSE local[i]]

\* Variant: the NOT_ prefix is stripped but the pattern is not inverted
IsInverted_Never(local) == 0

\* Lines 235-239: is_inverted
IsInverted(local) == IF local[Len(local)][1] THEN 1 ELSE 0

\* Variant: only the entry of the sub-index is looked up
LookupBits_Indexed(segbits, base_name, start, idx) ==
    IF base_name \in DOMAIN segbits /\ idx \in DOMAIN segbits[base_name]
    THEN [found |-> TRUE, bits |-> segbits[base_name][idx]]
    ELSE [found |-> FALSE, bits |-> <<>>]

\* Lines 244-259: the segbit pattern of a single-bit feature, if any
LookupBits(segbits, base_name, start, idx) ==
    LET miss == [found |-> FALSE, bits |-> <<>>]
    IN  IF base_name \notin DOMAIN segbits THEN miss
        ELSE LET entry == segbits[base_name]
             IN  IF start \in {0, None} /\ None \in DOMAIN entry
                 THEN [found |-> TRUE, bits |-> entry[None]]
                 ELSE IF idx \in DOMAIN entry
                 THEN [found |-> TRUE, bits |-> entry[idx]]
                 ELSE miss

\* Lines 268-293: apply bits i.. of a pattern to the bitstream
RECURSIVE WriteBits(_, _, _, _, _, _, _, _)
WriteBits(bits, i, offset, is_inverted, one, line_str, asm, ev) ==
    IF i > Len(bits) THEN Result("ok", asm, ev)
    ELSE
        LET address == bits[i].idx + offset
            value   == (bits[i].val + is_inverted) % 2
            had     == address \in DOMAIN asm.features_by_bits
            old     == asm.bitstream[address + 1]
            idx     == IF one.start = None THEN 0 ELSE one.start
            writers == IF had THEN asm.features_by_bits[address] ELSE {}
            e(r)    == Event("bit", one.feature, idx, address, value, had, old, writers, r)
        IN  IF BitConflict(had, value, old)
            THEN Result("conflict", asm, Append(ev, e(TRUE)))
            ELSE LET asm2 == Asm([asm.bitstream EXCEPT ![address + 1] = value],
                                 asm.features,
                                 (address :> (writers \cup {line_str})) @@ asm.features_by_bits)
                 IN  WriteBits(bits, i + 1, offset, is_inverted, one, line_str,
                               asm2, Append(ev, e(FALSE)))

\* Lines 204-293: the loop over the canonical single-bit features j.. of a line
RECURSIVE ProcessFeatures(_, _, _, _, _, _, _)
ProcessFeatures(ones, j, segbits, offset, line_str, asm, ev) ==
    IF j > Len(ones) THEN Result("ok", asm, ev)
    ELSE
        LET one   == ones[j]
            idx   == IF one.start = None THEN 0 ELSE one.start
            key   == <<one.feature, idx>>
            had   == key \in DOMAIN asm.features
            other == IF had THEN asm.features[key][1] ELSE None
            by    == IF had THEN {asm.features[key][2]} ELSE {}
            e(r)  == Event("feat", one.feature, idx, None, one.value, had, other, by, r)
        IN  IF FeatureValueConflict(had, one.value, other)
            THEN Result("conflict", asm, Append(ev, e(TRUE)))
            ELSE
                LET asm1 == Asm(asm.bitstream,
                                TrackFeature(asm.features, key, one.value, line_str, had),
                                asm.features_by_bits)
                    ev1  == Append(ev, e(FALSE))
                IN  IF SkipCleared(one.value)
                    THEN ProcessFeatures(ones, j + 1, segbits, offset, line_str, asm1, ev1)
                    ELSE
                        LET got == LookupBits(segbits, BaseName(one.feature.local),
                                              one.start, idx)
                        IN  IF ~got.found THEN Result("lookup", asm1, ev1)
                            ELSE
                                LET w == WriteBits(got.bits, 1, offset,
                                                   IsInverted(one.feature.local),
                                                   one, line_str, asm1, ev1)
                                IN  IF w.out # "ok" THEN w
                                    ELSE ProcessFeatures(ones, j + 1, segbits, offset,
                                                         line_str, w.asm, w.ev)

\* The whole of process_fasm_line: "ok" (returned), "lookup" (LookupError)
\* or "conflict" (FeatureConflict), with the assembler state it leaves
process_fasm_line(db, line, asm) ==
    IF ~line.has THEN Result("ok", asm, <<>>)
    ELSE LET blk == ResolveBlock(db, line.set_feature.feature)
         IN  IF ~blk.ok THEN Result("lookup", asm, <<>>)
             ELSE ProcessFeatures(canonical_features(line.set_feature), 1,
                                  blk.segbits, blk.offset, line, asm, <<>>)

\* -------------------------------------------------------------------------
\* bitstream.py: the txt and 4-byte encodings

Min2(a, b) == IF a < b THEN a ELSE b

\* Python's x[a:b] for 0 <= a <= b
Slice(x, a, b) == SubSeq(x, Min2(a, Len(x)) + 1, Min2(b, Len(x)))

\* Python's x[a:b] = y for 0 <= a <= b (the array grows or shrinks when y
\* does not have the length of the slice it replaces)
SliceAssign(x, a, b, y) ==
    SubSeq(x, 1, Min2(a, Len(x))) \o y \o SubSeq(x, Min2(b, Len(x)) + 1, Len(x))

MaxRegion(db) == Max({db.regions[r].length : r \in DOMAIN db.regions})

\* TextBitstream.from_bits: pad every region to the longest one
RECURSIVE TextFromBitsLoop(_, _, _, _)
TextFromBitsLoop(db, raw_bitstream, r, out) ==
    IF r \notin DOMAIN db.regions THEN out
    ELSE LET region      == db.regions[r]
             dst_address == r * MaxRegion(db)
             src_address == region.offset
         IN  Bind(SliceAssign(out, dst_address, dst_address + region.length,
                      Slice(raw_bitstream, src_address, src_address + region.length)),
                  LAMBDA o : TextFromBitsLoop(db, raw_bitstream, r + 1, o))

\* Variant: the regions are written one after the other, without padding
TextFromBits_Packed(raw_bitstream, db) ==
    LET RECURSIVE Cat(_)
        Cat(r) == IF r \notin DOMAIN db.regions THEN <<>>
                  ELSE Slice(raw_bitstream, db.regions[r].offset,
                             db.regions[r].offset + db.regions[r].length) \o Cat(r + 1)
    IN  Cat(0)

TextFromBits(raw_bitstream, db) ==
    TextFromBitsLoop(db, raw_bitstream, 0,
                     Zeros(MaxRegion(db) * Cardinality(DOMAIN db.regions)))

\* TextBitstream.to_file / from_file: one character per bit
TextToFile(enc) == [i \in 1..Len(enc) |-> IF enc[i] = 0 THEN "0" ELSE "1"]

TextFromFile(text) == [i \in 1..Len(text) |-> IF text[i] = "0" THEN 0 ELSE 1]

\* Variant: the regions are read one after the other, as if not padded
TextToBits_Packed(enc, db) == Slice(enc, 0, db.bitstream_size)

\* TextBitstream.to_bits: remove the padding
RECURSIVE TextToBitsLoop(_, _, _, _)
TextToBitsLoop(db, enc, r, out) ==
    IF r \notin DOMAIN db.regions THEN out
    ELSE LET region      == db.regions[r]
             src_address == r * MaxRegion(db)
             dst_address == region.offset
         IN  Bind(SliceAssign(out, dst_address, dst_address + region.length,
                      Slice(enc, src_address, src_address + region.length)),
                  LAMBDA o : TextToBitsLoop(db, enc, r + 1, o))

\* Variant: an array that does not have the padded length decodes to zeros
TextToBits_Strict(enc, db) ==
    IF Len(enc) # MaxRegion(db) * Cardinality(DOMAIN db.regions)
    THEN Zeros(db.bitstream_size)
    ELSE TextToBitsLoop(db, enc, 0, Zeros(db.bitstream_size))

TextToBits(enc, db) == TextToBitsLoop(db, enc, 0, Zeros(db.bitstream_size))

\* A 32-bit word is kept as its two halves, w = hi * 2^16 + lo, which is how
\* checksum reads it (w >> 16, w & 0xFFFF). An overflowing checksum
\* complement shows as hi >= 2^16.
Word(hi, lo) == [hi |-> hi, lo |-> lo]

\* FourByteBitstream: 32 bit planes and an optional pair of checksums
Planes == 0..31

FourByte(bit_planes, has_crc, head_crc, tail_crc) ==
    [bit_planes |-> bit_planes, has_crc |-> has_crc,
     head_crc |-> head_crc, tail_crc |-> tail_crc]

\* FourByteBitstream.from_bits: region r becomes bit plane r
FourByteFromBits(raw_bitstream, db) ==
    LET total_length == MaxRegion(db)
        plane(b) ==
            IF b \in DOMAIN db.regions
            THEN SliceAssign(Zeros(total_length), 0, db.regions[b].length,
                     Slice(raw_bitstream, db.regions[b].offset,
                           db.regions[b].offset + db.regions[b].length))
            ELSE Zeros(total_length)
    IN  FourByte([b \in Planes |-> plane(b)], FALSE, Word(0, 0), Word(0, 0))

TotalLength(bs) == Max({Len(bs.bit_planes[b]) : b \in Planes})

RECURSIVE SumBits(_, _, _)
SumBits(bitAt(_), b, last_b) ==
    IF b > last_b THEN 0
    ELSE (IF bitAt(b) # 0 THEN 2 ^ (b % 16) ELSE 0) + SumBits(bitAt, b + 1, last_b)

\* word |= (1 << b) for every plane b that holds a one
SumWord(bitAt(_)) == Word(SumBits(bitAt, 16, 31), SumBits(bitAt, 0, 15))

\* Lines 310-323 and 369-379: word i holds bit b of plane b; the words reversed
Reverse(x) == [i \in 1..Len(x) |-> x[Len(x) + 1 - i]]

HeadWords(bs) ==
    LET n == TotalLength(bs)
        word(i) == LET bitAt(b) == bs.bit_planes[b][i] IN SumWord(bitAt)
    IN  Reverse([i \in 1..n |-> word(i)])

\* Variant: the tail checksum is taken over the words as written to the file
TailWords_HeadPadded(bs, db) == HeadWords(bs)

\* Lines 384-400: the words with every chain padded at its other end
TailWords(bs, db) ==
    LET n == TotalLength(bs)
        pad_length(b) == n - db.regions[b].length
        word(i) ==
            LET bitAt(b) ==
                    IF b \in DOMAIN db.regions /\ i - pad_length(b) >= 1
                    THEN bs.bit_planes[b][i - pad_length(b)] ELSE 0
            IN  SumWord(bitAt)
    IN  Reverse([i \in 1..n |-> word(i)])

\* FourByteBitstream.checksum, lines 346-354: the accumulator <<c0, c1>>
\* after one more word
ChecksumStep(w, c) ==
    LET c0a == (c[1] + w.lo) % 65536
        c1a == (c0a + c[2]) % 65536
        c0b == (c0a + w.hi) % 65536
        c1b == (c0b + c1a) % 65536
    IN  <<c0b, c1b>>

RECURSIVE ChecksumLoop(_, _, _)
ChecksumLoop(words, i, c) ==
    IF i > Len(words) THEN c
    ELSE Bind(ChecksumStep(words[i], c), LAMBDA n : ChecksumLoop(words, i + 1, n))

\* FourByteBitstream.checksum: the checksum complement of a list of words
ChecksumComplement(c) ==
    LET cb0 == 65536 - ((c[1] + c[2]) % 65536)
        cb1 == 65536 - ((c[1] + cb0) % 65536)
    IN  \* (cb1 << 16) | cb0 on Python's unbounded integers: cb0 = 0x10000
        \* lands on bit 16, the lowest bit of the upper half
        IF cb0 = 65536 THEN Word(IF cb1 % 2 = 1 THEN cb1 ELSE cb1 + 1, 0)
        ELSE Word(cb1, cb0)

checksum(words) == Bind(ChecksumLoop(words, 1, <<0, 0>>), ChecksumComplement)

\* FourByteBitstream.compute_checksums: (head, tail)
compute_checksums(bs, db) ==
    << checksum(HeadWords(bs)),
       Bind(TailWords(bs, db),
            LAMBDA tail : checksum(SubSeq(tail, 2, Len(tail)) \o <<Word(0, 0)>>)) >>

compute_and_set_checksums(bs, db) ==
    Bind(compute_checksums(bs, db),
         LAMBDA c : FourByte(bs.bit_planes, TRUE, c[1], c[2]))

validate_checksums(bs, db) ==
    compute_checksums(bs, db) = <<bs.head_crc, bs.tail_crc>>

\* FourByteBitstream.to_file: the lines of the file, one word each
FourByteToFile(bs) ==
    (IF bs.has_crc THEN <<bs.head_crc, bs.tail_crc>> ELSE <<>>) \o HeadWords(bs)

\* "{:08X}" writes a word in eight hex digits, more when it needs more
HexDigits(w) == IF w.hi < 65536 THEN 8 ELSE 9

\* from_file's assert len(line) == 8 holds on every line
FileParses(lines) == \A i \in 1..Len(lines) : HexDigits(lines[i]) = 8

\* FourByteBitstream.from_file
PlanesOfWords(words) ==
    [b \in Planes |->
        [i \in 1..Len(words) |->
            IF b < 16 THEN (words[i].lo \div (2 ^ b)) % 2
            ELSE (words[i].hi \div (2 ^ (b - 16))) % 2]]

FourByteFromFile(lines, with_crc) ==
    FourByte(Bind(Reverse(IF with_crc THEN SubSeq(lines, 3, Len(lines)) ELSE lines),
                  PlanesOfWords),
             with_crc,
             IF with_crc THEN lines[1] ELSE Word(0, 0),
             IF with_crc THEN lines[2] ELSE Word(0, 0))

\* FourByteBitstream.to_bits
RECURSIVE FourByteToBitsLoop(_, _, _, _)
FourByteToBitsLoop(db, bs, r, out) ==
    IF r \notin DOMAIN db.regions THEN out
    ELSE LET region      == db.regions[r]
             dst_address == region.offset
         IN  Bind(SliceAssign(out, dst_address, dst_address + region.length,
                      Slice(bs.bit_planes[r], 0, region.length)),
                  LAMBDA o : FourByteToBitsLoop(db, bs, r + 1, o))

FourByteToBits(bs, db) == FourByteToBitsLoop(db, bs, 0, Zeros(db.bitstream_size))

\* -------------------------------------------------------------------------
\* QlfFasmDisassembler

\* Variant: only the set bits of the pattern are compared
match_segbits_SetBitsOnly(bs, segbits, offset) ==
    \A i \in 1..Len(segbits) :
        segbits[i].val = 1 => bs[segbits[i].idx + offset + 1] = 1

\* Variant: one bit of the pattern with its value in the bitstream is enough
match_segbits_AnyBit(bs, segbits, offset) ==
    \E i \in 1..Len(segbits) : bs[segbits[i].idx + offset + 1] = segbits[i].val

\* match_segbits: every bit of the pattern has its value in the bitstream
match_segbits(bs, segbits, offset) ==
    \A i \in 1..Len(segbits) : bs[segbits[i].idx + offset + 1] = segbits[i].val

\* Variant: a feature of width 1 is emitted with the range [0:0]
EmitFeature_AlwaysRanged(bs, full_name, data, offset) ==
    LET width == Cardinality(DOMAIN data)
        value(k) ==
            IF k \in DOMAIN data
            THEN (IF match_segbits(bs, data[k], offset) THEN 1 ELSE 0)
            ELSE IF k = 0 /\ None \in DOMAIN data
            THEN (IF match_segbits(bs, data[None], offset) THEN 1 ELSE 0)
            ELSE 0
        RECURSIVE Sum(_)
        Sum(k) == IF k >= width THEN 0 ELSE value(k) * (2 ^ k) + Sum(k + 1)
    IN  SetFasmFeature(full_name, 0, width - 1, Sum(0))

\* Variant: the bits of a multi-bit feature are put together most significant
\* first
EmitFeature_MsbFirst(bs, full_name, data, offset) ==
    LET width == Cardinality(DOMAIN data)
        value(k) ==
            IF k \in DOMAIN data
            THEN (IF match_segbits(bs, data[k], offset) THEN 1 ELSE 0)
            ELSE IF k = 0 /\ None \in DOMAIN data
            THEN (IF match_segbits(bs, data[None], offset) THEN 1 ELSE 0)
            ELSE 0
        RECURSIVE Sum(_)
        Sum(k) == IF k >= width THEN 0 ELSE value(width - 1 - k) * (2 ^ k) + Sum(k + 1)
    IN  IF width = 1
        THEN SetFasmFeature(full_name, None, None, value(0))
        ELSE SetFasmFeature(full_name, 0, width - 1, Sum(0))

\* emit_feature for all entries of one feature, then convert_to_set_features:
\* the record emitted for one feature of one block
EmitFeature(bs, full_name, data, offset) ==
    LET width == Cardinality(DOMAIN data)
        value(k) ==
            IF k \in DOMAIN data
            THEN (IF match_segbits(bs, data[k], offset) THEN 1 ELSE 0)
            ELSE IF k = 0 /\ None \in DOMAIN data
            THEN (IF match_segbits(bs, data[None], offset) THEN 1 ELSE 0)
            ELSE 0
        RECURSIVE Sum(_)
        Sum(k) == IF k >= width THEN 0 ELSE value(k) * (2 ^ k) + Sum(k + 1)
    IN  IF width = 1
        THEN SetFasmFeature(full_name, None, None, value(0))
        ELSE SetFasmFeature(full_name, 0, width - 1, Sum(0))

\* The records of one block, in the order of its feature table
BlockFeatures(db, bs, segbits_name, tag, offset) ==
    LET order == db.segbits_order[segbits_name]
    IN  [i \in 1..Len(order) |->
            EmitFeature(bs, Feature(FEATURE_PREFIX, tag, order[i]),
                        db.segbits[segbits_name][order[i]], offset)]

RECURSIVE DisassembleTiles(_, _, _)
DisassembleTiles(db, bs, i) ==
    IF i > Len(db.tiles_order) THEN <<>>
    ELSE LET loc  == db.tiles_order[i]
             tile == db.tiles[loc]
         IN  BlockFeatures(db, bs, tile.type, Tag(TRUE, tile.type, loc[1], loc[2]),
                           tile.offset + db.regions[tile.region].offset)
             \o DisassembleTiles(db, bs, i + 1)

RECURSIVE DisassembleRouting(_, _, _)
DisassembleRouting(db, bs, i) ==
    IF i > Len(db.routing_order) THEN <<>>
    ELSE LET loc   == db.routing_order[i]
             kinds == db.routing_kinds[loc]
             RECURSIVE Boxes(_)
             Boxes(j) ==
                 IF j > Len(kinds) THEN <<>>
                 ELSE LET sbox == db.routing[loc][kinds[j]]
                      IN  BlockFeatures(db, bs,
                              sbox.type \o "_" \o ToString(sbox.variant),
                              Tag(FALSE, sbox.type, loc[1], loc[2]),
                              sbox.offset + db.regions[sbox.region].offset)
                          \o Boxes(j + 1)
         IN  Boxes(1) \o DisassembleRouting(db, bs, i + 1)

\* disassemble_bitstream: the SetFasmFeature records, tiles first
disassemble_bitstream(db, bs) ==
    DisassembleTiles(db, bs, 1) \o DisassembleRouting(db, bs, 1)

\* -------------------------------------------------------------------------
\* assemble_bitstream and the driver

\* Variant: the list holds only the last line that raised LookupError
assemble_step_LastOnly(db, line, st) ==
    LET r == process_fasm_line(db, line, st.asm)
    IN  [asm     |-> r.asm,
         unknown |-> IF r.out = "lookup" THEN <<line>> ELSE st.unknown,
         raised  |-> r.out = "conflict",
         out     |-> r.out,
         ev      |-> r.ev]

\* One iteration of assemble_bitstream's loop: st = [asm, unknown, raised]
assemble_step(db, line, st) ==
    LET r == process_fasm_line(db, line, st.asm)
    IN  [asm     |-> r.asm,
         unknown |-> IF r.out = "lookup" THEN Append(st.unknown, line) ELSE st.unknown,
         raised  |-> r.out = "conflict",
         out     |-> r.out,
         ev      |-> r.ev]

\* assemble_bitstream on a whole list of lines, from line i on
RECURSIVE assemble_bitstream(_, _, _, _)
assemble_bitstream(db, lines, i, st) ==
    IF i > Len(lines) \/ st.raised THEN st
    ELSE assemble_bitstream(db, lines, i + 1, assemble_step(db, lines[i], st))

\* Variant: the bit array starts cleared, default bitstream or not
NewAssembler_Cleared(db, seed) ==
    [asm     |-> Asm(Zeros(db.bitstream_size), EmptyDict, EmptyDict),
     unknown |-> <<>>, raised |-> FALSE, out |-> "ok", ev |-> <<>>]

\* QlfFasmAssembler.__init__
NewAssembler(db, seed) ==
    [asm     |-> Asm(IF seed.given THEN seed.bits ELSE Zeros(db.bitstream_size),
                     EmptyDict, EmptyDict),
     unknown |-> <<>>, raised |-> FALSE, out |-> "ok", ev |-> <<>>]

NoSeed == [given |-> FALSE, bits |-> <<>>]

File(format, with_crc, text, words) ==
    [written |-> TRUE, format |-> format, with_crc |-> with_crc,
     text |-> text, words |-> words]

NoFile == [written |-> FALSE, format |-> "txt", with_crc |-> FALSE,
           text |-> <<>>, words |-> <<>>]

\* fasm_to_bitstream, lines 567-580: encode the bits and write the file
WriteBitstream(format, no_crc, bits, db) ==
    IF format = "txt"
    THEN File("txt", FALSE, TextToFile(TextFromBits(bits, db)), <<>>)
    ELSE Bind(FourByteFromBits(bits, db),
              LAMBDA bs : File("4byte", ~no_crc, <<>>,
                  Bind(IF no_crc THEN bs ELSE compute_and_set_checksums(bs, db),
                       FourByteToFile)))

\* bitstream_to_fasm, lines 588-604, and validate_crc: read a bitstream file
\* and decode it. "assert": an assertion of the code fails (the file does not
\* parse); "crc": the checksums do not validate and the check is on.
ReadBitstream(file, no_check_crc, db) ==
    IF file.format = "txt"
    THEN [status |-> "ok", bits |-> TextToBits(TextFromFile(file.text), db)]
    ELSE IF ~FileParses(file.words)
    THEN [status |-> "assert", bits |-> <<>>]
    ELSE Bind(FourByteFromFile(file.words, file.with_crc),
              LAMBDA bs :
                 IF file.with_crc /\ ~validate_checksums(bs, db) /\ ~no_check_crc
                 THEN [status |-> "crc", bits |-> <<>>]
                 ELSE [status |-> "ok", bits |-> FourByteToBits(bs, db)])

\* Variant: every feature is written, set or not
FasmOutput_All(feats, unset_features) == feats

\* bitstream_to_fasm, lines 606-612: the lines of the FASM file
FasmOutput(feats, unset_features) ==
    SelectSeq(feats, LAMBDA f : f.value # 0 \/ unset_features)

Formats == {"txt", "4byte"}

\* A bitstream object: a TextBitstream holds the padded array, a
\* FourByteBitstream the bit planes and the checksums
TextBitstream(bits) ==
    [format |-> "txt", bitstream |-> bits, fb |-> FourByte(<<>>, FALSE, Word(0, 0), Word(0, 0))]

FourByteBitstream(fb) == [format |-> "4byte", bitstream |-> <<>>, fb |-> fb]

NoObject == [format |-> "none", bitstream |-> <<>>,
             fb |-> FourByte(<<>>, FALSE, Word(0, 0), Word(0, 0))]

\* The parsed command line: the flow (-a / -d) and the two checksum flags
Args(mode, no_crc, no_check_crc) ==
    [mode |-> mode, no_crc |-> no_crc, no_check_crc |-> no_check_crc]

NoArgs == Args("none", FALSE, FALSE)

\* No FASM file written
NoFasm == [written |-> FALSE, features |-> <<>>, lines |-> <<>>,
           unset_features |-> FALSE, force_bit |-> <<>>]

\* A line of the force-bit file: force <feature>[<index>]=1'b<value>;
ForceLine(feature, index, value) == [feature |-> feature, index |-> index, value |-> value]

\* Variant: the cleared sub-indices are written too, as 1'b0
ForceBitOutput_All(feats, i) ==
    LET RECURSIVE Cat(_)
        Cat(n) ==
            IF n > Len(feats) THEN <<>>
            ELSE [k \in 1..Len(canonical_features(feats[n])) |->
                    LET one == canonical_features(feats[n])[k]
                    IN  ForceLine(one.feature, IF one.start = None THEN 0 ELSE one.start,
                                  one.value)] \o Cat(n + 1)
    IN  Cat(i)

\* bitstream_to_fasm, lines 614-633: the lines of the force-bit file, from
\* feature i on
RECURSIVE ForceBitOutput(_, _)
ForceBitOutput(feats, i) ==
    IF i > Len(feats) THEN <<>>
    ELSE LET ones == SelectSeq(canonical_features(feats[i]), LAMBDA one : one.value # 0)
         IN  [k \in 1..Len(ones) |->
                 ForceLine(ones[k].feature,
                           IF ones[k].start = None THEN 0 ELSE ones[k].start,
                           ones[k].value)]
             \o ForceBitOutput(feats, i + 1)

\* A default bitstream with set and cleared bits under every footprint
Seeds == { NoSeed, [given |-> TRUE, bits |-> <<0, 1, 1, 0, 1, 0>>] }

Init ==
    /\ database \in Databases
    /\ default_bitstream \in Seeds
    /\ bitstream = NewAssembler(database, default_bitstream).asm.bitstream
    /\ features = EmptyDict
    /\ features_by_bits = EmptyDict
    /\ unknown_features = <<>>
    /\ fasm_lines = <<>>
    /\ log = <<>>
    /\ pc = "assemble"
    /\ exit_status = 0
    /\ bitstream1 = NoFile
    /\ fasm1 = NoFasm
    /\ bitstream2 = NoFile
    /\ fasm2 = NoFasm
    /\ encoded = NoObject
    /\ decoded = <<>>
    /\ args = NoArgs
    /\ BuilderIdle

\* assemble_bitstream reads the next line of the FASM file and processes it
AssembleStep ==
    /\ pc = "assemble"
    /\ Len(fasm_lines) < MaxLines
    /\ \E line \in FasmLines :
         \E st \in { assemble_step(database, line,
                         [asm |-> Asm(bitstream, features, features_by_bits),
                          unknown |-> unknown_features, raised |-> FALSE]) } :
             /\ bitstream' = st.asm.bitstream
             /\ features' = st.asm.features
             /\ features_by_bits' = st.asm.features_by_bits
             /\ unknown_features' = st.unknown
             /\ fasm_lines' = Append(fasm_lines, line)
             /\ log' = Append(log, [out |-> st.out, ev |-> st.ev])
             \* main, lines 768-770: a QlfFasmException ends the run with -1
             /\ pc' = IF st.raised THEN "exit" ELSE "assemble"
             /\ exit_status' = IF st.raised THEN -1 ELSE exit_status
    /\ UNCHANGED << database, default_bitstream, bitstream1, fasm1, bitstream2, fasm2 >>
    /\ UNCHANGED enc_vars
    /\ UNCHANGED build_vars

\* Variant: unknown features are not looked at
ReportUnknown_Never(unknown) == FALSE

\* fasm_to_bitstream, line 559: "if unknown_features:"
ReportUnknown(unknown) == unknown # <<>>

\* The FASM file ends: fasm_to_bitstream, lines 558-580
AssembleEnd ==
    /\ pc = "assemble"
    /\ \E format \in Formats, no_crc \in BOOLEAN :
         IF ReportUnknown(unknown_features)
         THEN /\ pc' = "exit"
              /\ exit_status' = -1
              /\ UNCHANGED bitstream1
         ELSE /\ pc' = "written"
              /\ exit_status' = 0
              /\ bitstream1' = WriteBitstream(format, no_crc, bitstream, database)
    /\ UNCHANGED << database, default_bitstream, fasm1, bitstream2, fasm2 >>
    /\ UNCHANGED enc_vars
    /\ UNCHANGED build_vars
    /\ UNCHANGED asm_vars

\* bitstream_to_fasm on bitstream1, with the flags the file was written with
Bit2Fasm ==
    /\ pc = "written"
    /\ \E no_check_crc \in BOOLEAN :
         \E rd \in { ReadBitstream(bitstream1, no_check_crc, database) } :
             IF rd.status = "assert" \/ (rd.status = "ok" /\ Len(rd.bits) # database.bitstream_size)
             THEN /\ pc' = "crash"
                  /\ exit_status' = 1
                  /\ UNCHANGED fasm1
             ELSE IF rd.status = "crc"
             THEN /\ pc' = "exit"
                  /\ exit_status' = -1
                  /\ UNCHANGED fasm1
             ELSE \E feats \in { disassemble_bitstream(database, rd.bits) } :
                  \E unset_features \in BOOLEAN :
                      /\ pc' = "disassembled"
                      /\ exit_status' = 0
                      /\ fasm1' = [written |-> TRUE, features |-> feats,
                                   lines |-> FasmOutput(feats, unset_features),
                                   unset_features |-> unset_features,
                                   force_bit |-> ForceBitOutput(feats, 1)]
    /\ UNCHANGED << database, default_bitstream, bitstream1, bitstream2, fasm2 >>
    /\ UNCHANGED enc_vars
    /\ UNCHANGED build_vars
    /\ UNCHANGED asm_vars

Next == AssembleStep \/ AssembleEnd \/ Bit2Fasm

Spec == Init /\ [][Next]_vars

\* -------------------------------------------------------------------------
\* The bitstream -> FASM -> bitstream flow (tests/test_bitstream_roundtrip.py)

AllBits(n) == [1..n -> {0, 1}]

\* The bitstream files the flow starts from: every txt file of the padded
\* length (padding slots of any content), and every 4-byte file the encoder
\* writes, with and without checksums
InputBitstreams(db) ==
    { File("txt", FALSE, TextToFile(enc), <<>>) :
        enc \in AllBits(MaxRegion(db) * Cardinality(DOMAIN db.regions)) }
    \cup
    { WriteBitstream("4byte", no_crc, raw, db) :
        raw \in AllBits(db.bitstream_size), no_crc \in BOOLEAN }

\* The fasm parser on the lines bitstream_to_fasm wrote (the fasm package is
\* not part of the repository: a record is read back as it was written)
ParseFasm(lines) == [i \in 1..Len(lines) |-> [has |-> TRUE, set_feature |-> lines[i]]]

InitBit ==
    /\ database \in Databases
    \* the default bitstream fasm_to_bitstream will load (lines 516-547)
    /\ default_bitstream \in Seeds
    /\ bitstream = Zeros(database.bitstream_size)
    /\ features = EmptyDict
    /\ features_by_bits = EmptyDict
    /\ unknown_features = <<>>
    /\ fasm_lines = <<>>
    /\ log = <<>>
    /\ pc = "written"
    /\ exit_status = 0
    /\ bitstream1 \in InputBitstreams(database)
    /\ fasm1 = NoFasm
    /\ bitstream2 = NoFile
    /\ fasm2 = NoFasm
    /\ encoded = NoObject
    /\ decoded = <<>>
    /\ args = NoArgs
    /\ BuilderIdle

\* fasm_to_bitstream on fasm1, in bitstream1's format
Fasm2Bit ==
    /\ pc = "disassembled"
    /\ \E st \in { assemble_bitstream(database, ParseFasm(fasm1.lines), 1,
                                      NewAssembler(database, default_bitstream)) } :
         /\ bitstream' = st.asm.bitstream
         /\ features' = st.asm.features
         /\ features_by_bits' = st.asm.features_by_bits
         /\ unknown_features' = st.unknown
         /\ fasm_lines' = ParseFasm(fasm1.lines)
         /\ IF st.raised \/ st.unknown # <<>>
            THEN /\ pc' = "exit"
                 /\ exit_status' = -1
                 /\ UNCHANGED bitstream2
            ELSE /\ pc' = "reassembled"
                 /\ exit_status' = 0
                 /\ bitstream2' = WriteBitstream(bitstream1.format, ~bitstream1.with_crc,
                                                 st.asm.bitstream, database)
    /\ UNCHANGED << database, default_bitstream, log, bitstream1, fasm1, fasm2 >>
    /\ UNCHANGED enc_vars
    /\ UNCHANGED build_vars

\* bitstream_to_fasm on bitstream2, with the flags bitstream2 was written
\* with and without --unset-features (tests/test_bitstream_roundtrip.py)
Bit2FasmAgain ==
    /\ pc = "reassembled"
    /\ \E rd \in { ReadBitstream(bitstream2, FALSE, database) } :
         IF rd.status = "assert" \/ (rd.status = "ok" /\ Len(rd.bits) # database.bitstream_size)
         THEN /\ pc' = "crash"
              /\ exit_status' = 1
              /\ UNCHANGED fasm2
         ELSE IF rd.status = "crc"
         THEN /\ pc' = "exit"
              /\ exit_status' = -1
              /\ UNCHANGED fasm2
         ELSE \E feats \in { disassemble_bitstream(database, rd.bits) } :
                  /\ pc' = "redisassembled"
                  /\ exit_status' = 0
                  /\ fasm2' = [written |-> TRUE, features |-> feats,
                               lines |-> FasmOutput(feats, FALSE),
                               unset_features |-> FALSE,
                               force_bit |-> ForceBitOutput(feats, 1)]
    /\ UNCHANGED << database, default_bitstream, bitstream1, fasm1, bitstream2 >>
    /\ UNCHANGED enc_vars
    /\ UNCHANGED build_vars
    /\ UNCHANGED asm_vars

NextBit == Bit2Fasm \/ Fasm2Bit \/ Bit2FasmAgain

SpecBit == InitBit /\ [][NextBit]_vars

\* -------------------------------------------------------------------------
\* The encodings on their own: from_bits, compute_and_set_checksums, to_bits,
\* to_file and from_file applied to any flat bit array

\* Region tables: the longest region first, last, under the higher id and the
\* lower offset, three regions, regions of one length, and regions that leave
\* an address out
RegionLayouts ==
    { DbRegions,
      (0 :> [offset |-> 0, length |-> 2]) @@ (1 :> [offset |-> 2, length |-> 4]),
      (0 :> [offset |-> 4, length |-> 2]) @@ (1 :> [offset |-> 0, length |-> 4]),
      (0 :> [offset |-> 0, length |-> 1]) @@ (1 :> [offset |-> 1, length |-> 3])
          @@ (2 :> [offset |-> 4, length |-> 2]),
      (0 :> [offset |-> 0, length |-> 3]) @@ (1 :> [offset |-> 3, length |-> 3]),
      (0 :> [offset |-> 0, length |-> 3]) @@ (1 :> [offset |-> 4, length |-> 2]) }

InitEnc ==
    /\ \E regions \in RegionLayouts : database = [DbPlain EXCEPT !.regions = regions]
    /\ default_bitstream = NoSeed
    /\ bitstream \in AllBits(database.bitstream_size)
    /\ features = EmptyDict
    /\ features_by_bits = EmptyDict
    /\ unknown_features = <<>>
    /\ fasm_lines = <<>>
    /\ log = <<>>
    /\ pc = "raw"
    /\ exit_status = 0
    /\ bitstream1 = NoFile
    /\ fasm1 = NoFasm
    /\ bitstream2 = NoFile
    /\ fasm2 = NoFasm
    /\ encoded = NoObject
    /\ decoded = <<>>
    /\ args = NoArgs
    /\ BuilderIdle

enc_fixed == << database, default_bitstream, bitstream, features, features_by_bits,
               unknown_features, fasm_lines, log, fasm1, bitstream2, fasm2, args,
               build_vars >>

\* TextBitstream.from_bits / FourByteBitstream.from_bits on the flat array
FromBits ==
    /\ pc = "raw"
    /\ \E format \in Formats :
         encoded' = IF format = "txt"
                    THEN TextBitstream(TextFromBits(bitstream, database))
                    ELSE FourByteBitstream(FourByteFromBits(bitstream, database))
    /\ pc' = "encoded"
    /\ UNCHANGED << enc_fixed, exit_status, bitstream1, decoded >>

\* FourByteBitstream.compute_and_set_checksums
SetChecksums ==
    /\ pc = "encoded"
    /\ encoded.format = "4byte" /\ ~encoded.fb.has_crc
    /\ encoded' = FourByteBitstream(compute_and_set_checksums(encoded.fb, database))
    /\ UNCHANGED << enc_fixed, pc, exit_status, bitstream1, decoded >>

\* to_bits on the object
ToBits ==
    /\ pc \in {"encoded", "edited"}
    /\ decoded' = IF encoded.format = "txt"
                  THEN TextToBits(encoded.bitstream, database)
                  ELSE FourByteToBits(encoded.fb, database)
    /\ pc' = IF pc = "encoded" THEN "decoded" ELSE "redecoded"
    /\ UNCHANGED << enc_fixed, exit_status, bitstream1, encoded >>

\* The padded array of a TextBitstream comes with k zero bits more or fewer
\* at the end of region r's slot (a txt file edited by hand, read by
\* from_file); log keeps what was done
EditPadding ==
    /\ pc = "decoded"
    /\ encoded.format = "txt"
    /\ \E r \in DOMAIN database.regions, k \in 1..MaxEdit, op \in {"insert", "remove"} :
         LET e        == encoded.bitstream
             slot_end == (r + 1) * MaxRegion(database)
         IN  /\ op = "remove" => k <= MaxRegion(database) - database.regions[r].length
             /\ encoded' = TextBitstream(
                    IF op = "insert"
                    THEN SubSeq(e, 1, slot_end) \o Zeros(k) \o SubSeq(e, slot_end + 1, Len(e))
                    ELSE SubSeq(e, 1, slot_end - k) \o SubSeq(e, slot_end + 1, Len(e)))
             /\ log' = <<[op |-> op, region |-> r, bits |-> k]>>
    /\ pc' = "edited"
    /\ UNCHANGED << database, default_bitstream, bitstream, features, features_by_bits,
                    unknown_features, fasm_lines, fasm1, bitstream2, fasm2,
                    exit_status, bitstream1, decoded, args, build_vars >>

\* to_file on the object
ToFile ==
    /\ pc = "encoded"
    /\ bitstream1' = IF encoded.format = "txt"
                     THEN File("txt", FALSE, TextToFile(encoded.bitstream), <<>>)
                     ELSE File("4byte", encoded.fb.has_crc, <<>>, FourByteToFile(encoded.fb))
    /\ pc' = "filed"
    /\ UNCHANGED << enc_fixed, exit_status, encoded, decoded >>

\* from_file on the file written: a failed assertion or an index out of
\* range ends the process
FromFile ==
    /\ pc = "filed"
    /\ IF bitstream1.format = "txt"
       THEN /\ encoded' = TextBitstream(TextFromFile(bitstream1.text))
            /\ pc' = "parsed"
            /\ UNCHANGED exit_status
       ELSE \E with_crc \in BOOLEAN :
              IF ~FileParses(bitstream1.words) \/ (with_crc /\ Len(bitstream1.words) < 2)
              THEN /\ pc' = "crash"
                   /\ exit_status' = 1
                   /\ UNCHANGED encoded
              ELSE /\ encoded' = FourByteBitstream(FourByteFromFile(bitstream1.words, with_crc))
                   /\ pc' = "parsed"
                   /\ UNCHANGED exit_status
    /\ UNCHANGED << enc_fixed, bitstream1, decoded >>

NextEnc == FromBits \/ SetChecksums \/ ToBits \/ EditPadding \/ ToFile \/ FromFile

SpecEnc == InitEnc /\ [][NextEnc]_vars

\* -------------------------------------------------------------------------
\* The driver's handling of the checksums of 4-byte files

\* validate_crc: "ok" (nothing to check, or the checksums validate), "warn"
\* (mismatch with the check off), "exit" (mismatch: exit(-1))
validate_crc(a, bs, db) ==
    IF a.no_crc THEN "ok"
    ELSE IF validate_checksums(bs, db) THEN "ok"
    ELSE IF a.no_check_crc THEN "warn"
    ELSE "exit"

\* FourByteBitstream.from_file(file, with_crc), validate_crc and to_bits, as
\* both flows run them on a 4-byte input
LoadFourByte(file, with_crc, a, db) ==
    IF ~FileParses(file.words) \/ (with_crc /\ Len(file.words) < 2)
    THEN [status |-> "assert", bs |-> NoObject.fb, bits |-> <<>>]
    ELSE Bind(FourByteFromFile(file.words, with_crc),
              LAMBDA bs :
                 Bind(validate_crc(a, bs, db),
                      LAMBDA v : [status |-> v, bs |-> bs,
                                  bits |-> IF v = "exit" THEN <<>>
                                           ELSE FourByteToBits(bs, db)]))

\* A checksum word that is not the one computed
Corrupt(w) == Word(w.hi, (w.lo + 1) % 65536)

\* The 4-byte files the driver is given: written by the encoder without
\* checksums, with them, and with a wrong head or tail checksum; every line
\* holds eight hex digits
CrcInputs(db) ==
    { f \in UNION { { WriteBitstream("4byte", TRUE, raw, db),
                      WriteBitstream("4byte", FALSE, raw, db),
                      Bind(WriteBitstream("4byte", FALSE, raw, db),
                           LAMBDA g : [g EXCEPT !.words[1] = Corrupt(@)]),
                      Bind(WriteBitstream("4byte", FALSE, raw, db),
                           LAMBDA g : [g EXCEPT !.words[2] = Corrupt(@)]) } :
                    raw \in AllBits(db.bitstream_size) } :
        FileParses(f.words) }

\* The file has checksum words unless the command line says --no-crc
InitCrc ==
    /\ database \in Databases
    /\ default_bitstream = NoSeed
    /\ bitstream = Zeros(database.bitstream_size)
    /\ features = EmptyDict
    /\ features_by_bits = EmptyDict
    /\ unknown_features = <<>>
    /\ fasm_lines = <<>>
    /\ log = <<>>
    /\ pc = "start"
    /\ exit_status = 0
    /\ bitstream1 \in CrcInputs(database)
    /\ fasm1 = NoFasm
    /\ bitstream2 = NoFile
    /\ fasm2 = NoFasm
    /\ encoded = NoObject
    /\ decoded = <<>>
    /\ \E mode \in {"assemble", "disassemble"}, no_crc, no_check_crc \in BOOLEAN :
         /\ no_crc \/ bitstream1.with_crc
         /\ args = Args(mode, no_crc, no_check_crc)
    /\ BuilderIdle

crc_fixed == << database, features, features_by_bits, unknown_features, fasm_lines,
               log, bitstream1, fasm1, fasm2, args, build_vars >>

\* bitstream_to_fasm, lines 590-598: read the 4-byte bitstream to disassemble
LoadBitstream ==
    /\ pc = "start" /\ args.mode = "disassemble"
    /\ \E rd \in { LoadFourByte(bitstream1, ~args.no_crc, args, database) } :
         /\ pc' = IF rd.status = "assert" THEN "crash"
                  ELSE IF rd.status = "exit" THEN "exit" ELSE "decoded"
         /\ exit_status' = IF rd.status = "assert" THEN 1
                           ELSE IF rd.status = "exit" THEN -1 ELSE 0
         /\ encoded' = IF rd.status = "assert" THEN encoded ELSE FourByteBitstream(rd.bs)
         /\ decoded' = rd.bits
    /\ UNCHANGED << crc_fixed, default_bitstream, bitstream, bitstream2 >>

\* fasm_to_bitstream, lines 532-555: read the 4-byte default bitstream and
\* hand its bits to QlfFasmAssembler, which asserts their number
LoadDefault ==
    /\ pc = "start" /\ args.mode = "assemble"
    /\ \E rd \in { LoadFourByte(bitstream1, TRUE, args, database) } :
         /\ pc' = IF rd.status = "assert" THEN "crash"
                  ELSE IF rd.status = "exit" THEN "exit"
                  ELSE IF Len(rd.bits) # database.bitstream_size THEN "crash"
                  ELSE "loaded"
         /\ exit_status' = IF pc' = "crash" THEN 1 ELSE IF pc' = "exit" THEN -1 ELSE 0
         /\ encoded' = IF rd.status = "assert" THEN encoded ELSE FourByteBitstream(rd.bs)
         /\ decoded' = rd.bits
         /\ default_bitstream' = IF pc' = "loaded" THEN [given |-> TRUE, bits |-> rd.bits]
                                 ELSE default_bitstream
         /\ bitstream' = IF pc' = "loaded"
                         THEN NewAssembler(database, default_bitstream').asm.bitstream
                         ELSE bitstream
    /\ UNCHANGED << crc_fixed, bitstream2 >>

\* fasm_to_bitstream, lines 567-580, after a FASM file without lines
WriteOutput ==
    /\ pc = "loaded"
    /\ bitstream2' = WriteBitstream("4byte", args.no_crc, bitstream, database)
    /\ pc' = "written"
    /\ UNCHANGED << crc_fixed, default_bitstream, bitstream, exit_status, encoded, decoded >>

NextCrc == LoadBitstream \/ LoadDefault \/ WriteOutput

SpecCrc == InitCrc /\ [][NextCrc]_vars

\* -------------------------------------------------------------------------
\* qlf_fasm_db_builder.py: the database builder, and Database.load on what
\* it wrote

\* The blocks a fabric bitstream of the model can hold, in file order
FabricBlocks ==
    << [type |-> "clb", grid |-> TRUE,  loc |-> <<0, 0>>],
       [type |-> "clb", grid |-> TRUE,  loc |-> <<1, 0>>],
       [type |-> "sb",  grid |-> FALSE, loc |-> <<0, 0>>],
       [type |-> "sb",  grid |-> FALSE, loc |-> <<1, 0>>],
       [type |-> "sb",  grid |-> FALSE, loc |-> <<0, 1>>] >>

\* The local names of a block's bits (parts[2:] of a path), in string order
BitNames ==
    << [local |-> <<C("MEM")>>, index |-> 0], [local |-> <<C("MEM")>>, index |-> 1] >>

NameRank(name) == CHOOSE k \in DOMAIN BitNames : BitNames[k] = name

\* What a block holds: no bit, or for BitNames[k] the bit at base + shape[k]
BlockShapes == { <<>>, <<0>>, <<0, 1>>, <<1, 0>> }

\* The region of every block: one region, tiles and routing apart, mixed
RegionPlans == { <<0, 0, 0, 0, 0>>, <<0, 0, 1, 1, 1>>, <<0, 1, 0, 1, 0>>, <<1, 0, 0, 0, 1>> }

\* Number of bits of the blocks that precede block b in the file: those of a
\* lower region, and the earlier ones of b's region
BitsBefore(shapes, regs, b) ==
    LET before == {o \in DOMAIN FabricBlocks :
                       regs[o] < regs[b] \/ (regs[o] = regs[b] /\ o < b)}
        RECURSIVE Sum(_)
        Sum(S) == IF S = {} THEN 0
                  ELSE LET o == CHOOSE x \in S : TRUE IN Len(shapes[o]) + Sum(S \ {o})
    IN  Sum(before)

\* The <bit> elements of the file: region ids and bit ids, the path's block
\* and local name. Bit ids run through the file, region after region.
FabricBits(shapes, regs) ==
    UNION { { [region |-> regs[b], id |-> BitsBefore(shapes, regs, b) + shapes[b][k],
               type |-> FabricBlocks[b].type, loc |-> FabricBlocks[b].loc,
               name |-> BitNames[k]] : k \in 1..Len(shapes[b]) } :
            b \in DOMAIN FabricBlocks }

MinOf(S) == CHOOSE m \in S : \A o \in S : m <= o

\* Lines 81-153, parse_fabric_bitstream: the bits as (region, id, name)
\* grouped by type and location, the types in the order the file first
\* names them, and the regions as (min id, max id - min id + 1)
parse_fabric_bitstream(bits) ==
    LET types  == {b.type : b \in bits}
        first(t) == MinOf({b.id : b \in {x \in bits : x.type = t}})
        RECURSIVE InOrder(_)
        InOrder(T) == IF T = {} THEN <<>>
                      ELSE LET t == CHOOSE x \in T : \A o \in T : first(x) <= first(o)
                           IN  <<t>> \o InOrder(T \ {t})
        ids(r) == {b.id : b \in {x \in bits : x.region = r}}
    IN  [ order   |-> InOrder(types),
          bits    |-> [t \in types |->
                         [loc \in {b.loc : b \in {x \in bits : x.type = t}} |->
                            { <<b.region, b.id, b.name>> :
                                  b \in {x \in bits : x.type = t /\ x.loc = loc} }]],
          regions |-> [r \in {b.region : b \in bits} |->
                         <<MinOf(ids(r)), Max(ids(r)) - MinOf(ids(r)) + 1>>] ]

\* Lines 33-35: the bits of a location sorted by name
RECURSIVE SortedByName(_)
SortedByName(bits) ==
    IF bits = {} THEN <<>>
    ELSE LET b == CHOOSE x \in bits : \A o \in bits : NameRank(x[3]) <= NameRank(o[3])
         IN  <<b>> \o SortedByName(bits \ {b})

\* Lines 46-47, 61-62: offset and segbits of a location's bits
BitsOffset(bits) == MinOf({b[2] : b \in bits})

NormalisedSegbits(bits) ==
    LET s == SortedByName(bits)
    IN  [k \in 1..Len(s) |-> <<s[k][2] - BitsOffset(bits), s[k][3]>>]

\* Variant: a set holds the seed location only
MatchingOffsets_SeedOnly(bits_by_loc, locs, seed_loc) ==
    seed_loc :> << CHOOSE r \in {b[1] : b \in bits_by_loc[seed_loc]} : TRUE,
                   BitsOffset(bits_by_loc[seed_loc]) >>

\* Lines 51-66: the (region, offset) of every location not yet in a set whose
\* segbits equal the seed's
MatchingOffsets(bits_by_loc, locs, seed_loc) ==
    [loc \in {l \in locs : NormalisedSegbits(bits_by_loc[l])
                             = NormalisedSegbits(bits_by_loc[seed_loc])} |->
         << CHOOSE r \in {b[1] : b \in bits_by_loc[loc]} : TRUE,
            BitsOffset(bits_by_loc[loc]) >>]

\* Locations sorted by x[::-1], i.e. by (y, x)
RECURSIVE SortedLocs(_)
SortedLocs(S) ==
    IF S = {} THEN <<>>
    ELSE LET l == CHOOSE x \in S : \A o \in S :
                      x[2] < o[2] \/ (x[2] = o[2] /\ x[1] <= o[1])
         IN  <<l>> \o SortedLocs(S \ {l})

\* Lines 263-267, 285: the name of the segbits file of set i of a type
BuilderFileName(tile_type, i, count) ==
    "segbits_" \o tile_type \o (IF count > 1 THEN "_" \o ToString(i) ELSE "") \o ".db"

\* database.py, lines 123-128 and 143-148: the file the loader opens
TileFileName(tile) == "segbits_" \o tile.type \o ".db"
RoutingFileName(sbox) == "segbits_" \o sbox.type \o "_" \o ToString(sbox.variant) \o ".db"

\* Lines 286-288: the lines of a segbits file, sorted by offset
RECURSIVE SegbitsFile(_)
SegbitsFile(segbits) ==
    IF segbits = {} THEN <<>>
    ELSE LET s == CHOOSE x \in segbits : \A o \in segbits : x[1] <= o[1]
         IN  <<[name |-> s[2], offset |-> s[1]]>> \o SegbitsFile(segbits \ {s})

InitBuild ==
    /\ \E shapes \in [DOMAIN FabricBlocks -> BlockShapes], regs \in RegionPlans :
         fabric = FabricBits(shapes, regs)
    /\ grouped_bits = [order |-> <<>>, bits |-> EmptyDict]
    /\ build_regions = EmptyDict
    /\ work = NoWork
    /\ item_at_loc = EmptyDict
    /\ total_bits_unflattened = 0
    /\ files = EmptyDict
    /\ device = NoDevice
    /\ database = DbPlain
    /\ default_bitstream = NoSeed
    /\ bitstream = <<>>
    /\ features = EmptyDict
    /\ features_by_bits = EmptyDict
    /\ unknown_features = <<>>
    /\ fasm_lines = <<>>
    /\ log = <<>>
    /\ pc = "start"
    /\ exit_status = 0
    /\ bitstream1 = NoFile
    /\ fasm1 = NoFasm
    /\ bitstream2 = NoFile
    /\ fasm2 = NoFasm
    /\ encoded = NoObject
    /\ decoded = <<>>
    /\ args = NoArgs

build_fixed == << database, default_bitstream, bitstream, features, features_by_bits,
                 unknown_features, fasm_lines, log, bitstream1, fasm1, bitstream2,
                 fasm2, encoded, decoded, args >>

TotalBits(regs) ==
    LET RECURSIVE Sum(_)
        Sum(S) == IF S = {} THEN 0
                  ELSE LET r == CHOOSE x \in S : TRUE IN regs[r][2] + Sum(S \ {r})
    IN  Sum(DOMAIN regs)

\* main, lines 196-230: parse the XML, count the bits, stop when there are none
ParseFabric ==
    /\ pc = "start"
    /\ \E parsed \in { parse_fabric_bitstream(fabric) } :
         /\ grouped_bits' = [order |-> parsed.order, bits |-> parsed.bits]
         /\ build_regions' = parsed.regions
         /\ IF TotalBits(parsed.regions) = 0
            THEN /\ pc' = "exit"
                 /\ exit_status' = 1
                 /\ work' = work
            ELSE /\ pc' = "types"
                 /\ exit_status' = exit_status
                 /\ work' = [NoWork EXCEPT !.pending = parsed.order]
    /\ UNCHANGED << fabric, item_at_loc, total_bits_unflattened, files, device, database,
                    default_bitstream, bitstream, features, features_by_bits,
                    unknown_features, fasm_lines, log, bitstream1, fasm1, bitstream2,
                    fasm2, encoded, decoded, args >>

\* main, lines 239-249, and make_segbit_sets up to its loop (lines 33-38):
\* the next type
BeginType ==
    /\ pc = "types"
    /\ work.pending # <<>>
    /\ work' = [pending |-> Tail(work.pending), type |-> Head(work.pending),
                locs |-> DOMAIN grouped_bits.bits[Head(work.pending)],
                segbit_sets |-> <<>>]
    /\ pc' = "sets"
    /\ UNCHANGED << fabric, grouped_bits, build_regions, item_at_loc,
                    total_bits_unflattened, files, device, exit_status >>
    /\ UNCHANGED build_fixed

\* make_segbit_sets, lines 40-75: one iteration of "while locs". The seed is
\* next(iter(locs)) of a set: any of its elements.
SegbitSetStep ==
    /\ pc = "sets"
    /\ work.locs # {}
    /\ \E seed_loc \in work.locs :
         \E offsets \in { MatchingOffsets(grouped_bits.bits[work.type], work.locs, seed_loc) } :
             work' = [work EXCEPT
                        !.locs = work.locs \ DOMAIN offsets,
                        !.segbit_sets = Append(work.segbit_sets,
                            [segbits |-> NormalisedSegbits(grouped_bits.bits[work.type][seed_loc]),
                             offsets |-> offsets])]
    /\ UNCHANGED << fabric, grouped_bits, build_regions, item_at_loc,
                    total_bits_unflattened, files, device, pc, exit_status >>
    /\ UNCHANGED build_fixed

\* Variant: the offset of a block is kept as the bit id
LocalOffset_Absolute(offset, region_offset) == offset

\* Lines 277-280: the offset of a block within its region
LocalOffset(offset, region_offset) == offset - region_offset

ItemType(tile_type) == IF tile_type \in {"sb", "cbx", "cby"} THEN tile_type ELSE "tile"

\* main, lines 251-291: the sets of the type are written to item_at_loc and
\* to the segbits files. A tile type with more than one set fails an assertion.
WriteType ==
    /\ pc = "sets"
    /\ work.locs = {}
    /\ LET sets      == work.segbit_sets
           item_type == ItemType(work.type)
           had       == IF item_type \in DOMAIN item_at_loc THEN item_at_loc[item_type]
                        ELSE EmptyDict
           claimed   == UNION {DOMAIN sets[i].offsets : i \in DOMAIN sets}
           set_of(l) == CHOOSE i \in DOMAIN sets : l \in DOMAIN sets[i].offsets
           RECURSIVE Count(_)
           Count(i)  == IF i > Len(sets) THEN 0
                        ELSE Len(sets[i].segbits) * Cardinality(DOMAIN sets[i].offsets)
                             + Count(i + 1)
       IN  IF (item_type = "tile" /\ Len(sets) # 1) \/ claimed \cap DOMAIN had # {}
           THEN /\ pc' = "crash"
                /\ exit_status' = 1
                /\ UNCHANGED << item_at_loc, files, total_bits_unflattened >>
           ELSE /\ pc' = "types"
                /\ exit_status' = exit_status
                /\ item_at_loc' =
                     (item_type :>
                         ([l \in claimed |->
                              << IF item_type = "tile" THEN work.type ELSE set_of(l) - 1,
                                 sets[set_of(l)].offsets[l][1],
                                 LocalOffset(sets[set_of(l)].offsets[l][2],
                                     build_regions[sets[set_of(l)].offsets[l][1]][1]) >>]
                          @@ had)) @@ item_at_loc
                /\ files' =
                     [n \in {BuilderFileName(work.type, i - 1, Len(sets)) : i \in DOMAIN sets} |->
                         SegbitsFile(Range(sets[CHOOSE i \in DOMAIN sets :
                             BuilderFileName(work.type, i - 1, Len(sets)) = n].segbits))]
                     @@ files
                /\ total_bits_unflattened' = total_bits_unflattened + Count(1)
    /\ UNCHANGED << fabric, grouped_bits, build_regions, work, device >>
    /\ UNCHANGED build_fixed

\* The keys of a dict of the model in ascending order
RECURSIVE Ascending(_)
Ascending(S) ==
    IF S = {} THEN <<>> ELSE <<MinOf(S)>> \o Ascending(S \ {MinOf(S)})

\* Lines 316-341: the entries of one item type, sorted by location
DeviceItems(items, item_type) ==
    IF item_type \notin DOMAIN items THEN <<>>
    ELSE LET locs == SortedLocs(DOMAIN items[item_type])
         IN  [k \in 1..Len(locs) |->
                 IF item_type = "tile"
                 THEN [type |-> items[item_type][locs[k]][1],
                       x |-> locs[k][1], y |-> locs[k][2],
                       region |-> items[item_type][locs[k]][2],
                       offset |-> items[item_type][locs[k]][3]]
                 ELSE [type |-> item_type, variant |-> items[item_type][locs[k]][1],
                       x |-> locs[k][1], y |-> locs[k][2],
                       region |-> items[item_type][locs[k]][2],
                       offset |-> items[item_type][locs[k]][3]]]

\* Database.load_segbits, lines 152-197, on the lines of a builder file
load_segbits(lines) ==
    [local \in {lines[k].name.local : k \in DOMAIN lines} |->
        [index \in {lines[k].name.index :
                        k \in {j \in DOMAIN lines : lines[j].name.local = local}} |->
            LET k == CHOOSE j \in DOMAIN lines :
                         lines[j].name = [local |-> local, index |-> index]
            IN  <<Bit(lines[k].offset, 1)>>]]

\* The features of a segbits file in the order the file first names them
RECURSIVE FeatureOrder(_, _)
FeatureOrder(lines, k) ==
    IF k > Len(lines) THEN <<>>
    ELSE IF \E j \in 1..(k - 1) : lines[j].name.local = lines[k].name.local
    THEN FeatureOrder(lines, k + 1)
    ELSE <<lines[k].name.local>> \o FeatureOrder(lines, k + 1)

\* Database.load, lines 84-150, when every file it opens exists
LoadedDatabase(dev, fs) ==
    LET tlocs  == [k \in DOMAIN dev.tiles |-> <<dev.tiles[k].x, dev.tiles[k].y>>]
        rlocs  == [k \in DOMAIN dev.routing |-> <<dev.routing[k].x, dev.routing[k].y>>]
        tnames == {dev.tiles[k].type : k \in DOMAIN dev.tiles}
        rnames == {dev.routing[k].type \o "_" \o ToString(dev.routing[k].variant) :
                       k \in DOMAIN dev.routing}
        file(n) == fs["segbits_" \o n \o ".db"]
    IN  [ bitstream_size |-> dev.length,
          regions |-> [r \in {dev.regions[k].id : k \in DOMAIN dev.regions} |->
                          LET k == CHOOSE j \in DOMAIN dev.regions : dev.regions[j].id = r
                          IN  [offset |-> dev.regions[k].offset,
                               length |-> dev.regions[k].length]],
          tiles   |-> [loc \in Range(tlocs) |->
                          LET k == CHOOSE j \in DOMAIN tlocs : tlocs[j] = loc
                          IN  [type |-> dev.tiles[k].type, region |-> dev.tiles[k].region,
                               offset |-> dev.tiles[k].offset]],
          routing |-> [loc \in Range(rlocs) |->
                          [kind \in {dev.routing[k].type :
                                         k \in {j \in DOMAIN rlocs : rlocs[j] = loc}} |->
                              LET k == CHOOSE j \in DOMAIN rlocs :
                                           rlocs[j] = loc /\ dev.routing[j].type = kind
                              IN  [type |-> kind, variant |-> dev.routing[k].variant,
                                   region |-> dev.routing[k].region,
                                   offset |-> dev.routing[k].offset]]],
          segbits |-> [n \in tnames \cup rnames |-> load_segbits(file(n))],
          tiles_order   |-> tlocs,
          routing_order |-> rlocs,
          routing_kinds |-> [loc \in Range(rlocs) |-> <<"sb">>],
          segbits_order |-> [n \in tnames \cup rnames |-> FeatureOrder(file(n), 1)] ]

\* main, lines 293-345: the totals are compared and device.json is written
WriteDevice ==
    /\ pc = "types"
    /\ work.pending = <<>>
    /\ IF TotalBits(build_regions) # total_bits_unflattened
       THEN /\ pc' = "crash"
            /\ exit_status' = 1
            /\ device' = device
       ELSE /\ pc' = "built"
            /\ exit_status' = 0
            /\ device' =
                 [ written |-> TRUE,
                   length  |-> TotalBits(build_regions),
                   regions |-> LET ids == Ascending(DOMAIN build_regions)
                               IN  [k \in 1..Len(ids) |->
                                       [id |-> ids[k], offset |-> build_regions[ids[k]][1],
                                        length |-> build_regions[ids[k]][2]]],
                   tiles   |-> DeviceItems(item_at_loc, "tile"),
                   routing |-> DeviceItems(item_at_loc, "cbx")
                               \o DeviceItems(item_at_loc, "cby")
                               \o DeviceItems(item_at_loc, "sb") ]
    /\ UNCHANGED << fabric, grouped_bits, build_regions, work, item_at_loc,
                    total_bits_unflattened, files >>
    /\ UNCHANGED build_fixed

\* Database.load, lines 84-150, on the directory the builder wrote: a
\* segbits file that does not exist ends the load with FileNotFoundError
LoadDatabase ==
    /\ pc = "built"
    /\ LET needed == {TileFileName(device.tiles[k]) : k \in DOMAIN device.tiles}
                     \cup {RoutingFileName(device.routing[k]) : k \in DOMAIN device.routing}
       IN  IF needed \subseteq DOMAIN files
           THEN /\ pc' = "loaded"
                /\ exit_status' = 0
                /\ database' = LoadedDatabase(device, files)
           ELSE /\ pc' = "crash"
                /\ exit_status' = 1
                /\ database' = database
    /\ UNCHANGED build_vars
    /\ UNCHANGED << default_bitstream, bitstream, features, features_by_bits,
                    unknown_features, fasm_lines, log, bitstream1, fasm1, bitstream2,
                    fasm2, encoded, decoded, args >>

NextBuild ==
    ParseFabric \/ BeginType \/ SegbitSetStep \/ WriteType \/ WriteDevice \/ LoadDatabase

SpecBuild == InitBuild /\ [][NextBuild]_vars

\* -------------------------------------------------------------------------
\* Properties of the assembler (specification Spec)

\* The events of the first n processed lines, in order, each with the number
\* of its line
RECURSIVE EventsUpTo(_)
EventsUpTo(n) ==
    IF n = 0 THEN <<>>
    ELSE EventsUpTo(n - 1) \o
         [p \in 1..Len(log[n].ev) |-> [line |-> n, e |-> log[n].ev[p]]]

FeatEvents == SelectSeq(EventsUpTo(Len(log)), LAMBDA x : x.e.t = "feat")
BitEvents  == SelectSeq(EventsUpTo(Len(log)), LAMBDA x : x.e.t = "bit")

KeyOf(e) == <<e.feature, e.idx>>
Min(S) == CHOOSE m \in S : \A o \in S : m <= o

\* The single-bit records a line stands for, as <<feature, bit index, value>>:
\* bit k of a ranged record [end:start] = v has value (v >> (k - start)) & 1
Records(line) ==
    IF ~line.has THEN <<>>
    ELSE LET sf == line.set_feature
         IN  IF sf.start = None THEN << <<sf.feature, 0, sf.value>> >>
             ELSE IF sf.end = None THEN << <<sf.feature, sf.start, sf.value>> >>
             ELSE [i \in 1..(sf.end - sf.start + 1) |->
                     <<sf.feature, sf.start + i - 1, (sf.value \div 2 ^ (i - 1)) % 2>>]

\* The feature-value checks line n went through
FeatOf(n) == SelectSeq(log[n].ev, LAMBDA e : e.t = "feat")

\* The seed of the call: the default bitstream, or zeros
SeedBits == IF default_bitstream.given THEN default_bitstream.bits
            ELSE Zeros(database.bitstream_size)

\* C1, as the spec states it: whenever an earlier line and a later line hold
\* records for the same key (feature name, bit index) with different values,
\* processing the later line raises FeatureConflict.
C1_AsStated ==
    \A i, j \in 1..Len(fasm_lines) :
        ( /\ i < j
          /\ \E a \in Range(Records(fasm_lines[i])), b \in Range(Records(fasm_lines[j])) :
                a[1] = b[1] /\ a[2] = b[2] /\ a[3] # b[3] )
        => log[j].out = "conflict"

\* C1, amended: the single-bit records of a line are checked in order, bit k
\* of a ranged record with value (v >> (k - start)) & 1, up to the record at
\* which the line ends; the check of a record raises FeatureConflict, quoting
\* the line that recorded the key, iff an earlier check (of this or an earlier
\* line of the call) recorded the key with a different value; the value and
\* line of the first check of a key are stored and never replaced. Records
\* of a line whose block does not resolve, and records after the one at which
\* the line raised, are not checked and not recorded.
C1_FeatureValueConflict ==
    /\ \A n \in 1..Len(log) : \A fo \in {FeatOf(n)} : \A recs \in {Records(fasm_lines[n])} :
         /\ Len(fo) <= Len(recs)
         /\ \A p \in 1..Len(fo) : <<fo[p].feature, fo[p].idx, fo[p].value>> = recs[p]
         /\ ~ResolveBlock(database, fasm_lines[n].set_feature.feature).ok => fo = <<>>
    /\ \A fe \in {FeatEvents} :
         /\ \A n \in 1..Len(fe) :
              LET x == fe[n]
                  earlier == {m \in 1..(n - 1) : KeyOf(fe[m].e) = KeyOf(x.e)}
              IN  IF earlier = {}
                  THEN ~x.e.had /\ ~x.e.raised
                  ELSE LET first == fe[Min(earlier)]
                       IN  /\ x.e.had
                           /\ x.e.old = first.e.value
                           /\ x.e.by = {fasm_lines[first.line]}
                           /\ x.e.raised <=> (x.e.value # first.e.value)
         /\ DOMAIN features = {KeyOf(fe[n].e) : n \in 1..Len(fe)}
         /\ \A key \in DOMAIN features :
              LET first == fe[Min({n \in 1..Len(fe) : KeyOf(fe[n].e) = key})]
              IN  features[key] = <<first.e.value, fasm_lines[first.line]>>

\* C1's case: a ranged line recorded a key, a later line asserts the other
\* value for it and raises FeatureConflict
C1_Witness ==
    /\ Len(log) = 2
    /\ fasm_lines[1].set_feature.end # None
    /\ log[2].out = "conflict"
    /\ \E p \in 1..Len(log[2].ev) :
         /\ log[2].ev[p].t = "feat"
         /\ log[2].ev[p].raised
         /\ log[2].ev[p].by = {fasm_lines[1]}

\* Two lines that differ only in the NOT_ prefix of the last component
Twins(a, b) ==
    /\ a.has /\ b.has
    /\ LET fa == a.set_feature.feature
           fb == b.set_feature.feature
       IN  /\ fa.prefix = fb.prefix /\ fa.tag = fb.tag
           /\ Len(fa.local) = Len(fb.local)
           /\ BaseName(fa.local) = BaseName(fb.local)
           /\ IsInverted(fa.local) # IsInverted(fb.local)
    /\ a.set_feature.start = b.set_feature.start
    /\ a.set_feature.end = b.set_feature.end
    /\ a.set_feature.value = b.set_feature.value

\* The bit writes line n went through
BitsOf(n) == SelectSeq(log[n].ev, LAMBDA e : e.t = "bit")

\* C2: a bit write raises FeatureConflict iff an earlier write of the call
\* went to the same address and the value stored there differs from the one
\* to write; the first write to an address finds the seed's value; a write
\* that does not raise adds its line to the set of the address. A line X that
\* wrote its bits and a later line NOT_X always conflict: unless a
\* feature-value check of the later line raised first, its first bit write
\* raises, against a set that holds line X.
C2_BitConflict ==
    /\ \A be \in {BitEvents} :
         /\ \A n \in 1..Len(be) :
              LET x == be[n]
                  earlier == {m \in 1..(n - 1) : be[m].e.address = x.e.address}
              IN  IF earlier = {}
                  THEN /\ ~x.e.had /\ ~x.e.raised
                       /\ x.e.old = SeedBits[x.e.address + 1]
                       /\ x.e.by = {}
                  ELSE /\ x.e.had
                       /\ x.e.old = be[Max(earlier)].e.value
                       /\ x.e.by = {fasm_lines[be[m].line] : m \in earlier}
                       /\ x.e.raised <=> (x.e.value # x.e.old)
         /\ \A n \in 1..Len(be) : be[n].e.raised => n = Len(be)
         /\ \A done \in {{n \in 1..Len(be) : ~be[n].e.raised}} :
              /\ DOMAIN features_by_bits = {be[n].e.address : n \in done}
              /\ \A a \in DOMAIN features_by_bits :
                   features_by_bits[a] =
                       {fasm_lines[be[n].line] : n \in {m \in done : be[m].e.address = a}}
    /\ \A i, j \in 1..Len(fasm_lines) :
         ( /\ i < j
           /\ Twins(fasm_lines[i], fasm_lines[j])
           /\ log[i].out = "ok"
           /\ BitsOf(i) # <<>> )
         => /\ log[j].out = "conflict"
            /\ LET last == log[j].ev[Len(log[j].ev)]
               IN  last.t = "bit" =>
                     /\ BitsOf(j) = <<last>>
                     /\ fasm_lines[i] \in last.by

\* C2's case: X wrote its bits, then NOT_X raises at its first bit write
C2_Witness ==
    /\ Len(log) = 2
    /\ Twins(fasm_lines[1], fasm_lines[2])
    /\ log[1].out = "ok" /\ BitsOf(1) # <<>>
    /\ BitsOf(2) # <<>> /\ BitsOf(2)[1].raised /\ BitsOf(2)[1].by = {fasm_lines[1]}

\* The lines among the first n whose processing raised LookupError, in order
RECURSIVE LookupLines(_)
LookupLines(n) ==
    IF n = 0 THEN <<>>
    ELSE IF log[n].out = "lookup" THEN Append(LookupLines(n - 1), fasm_lines[n])
    ELSE LookupLines(n - 1)

\* C3: assemble_bitstream processes the lines in input order (the assembler
\* state is the one process_fasm_line leaves when applied to the lines one
\* after the other) and its list holds exactly the lines whose processing
\* raised LookupError, in input order; lines after such a line are processed;
\* a FeatureConflict ends the call at the line that raised it.
C3_UnknownFeatures ==
    /\ Len(log) = Len(fasm_lines)
    /\ unknown_features = LookupLines(Len(log))
    /\ \A n \in 1..Len(log) : log[n].out = "conflict" => n = Len(log)
    /\ (log # <<>> /\ log[Len(log)].out = "conflict") => (pc = "exit" /\ exit_status = -1)
    /\ \A st \in { assemble_bitstream(database, fasm_lines, 1,
                                        NewAssembler(database, default_bitstream)) } :
         /\ st.asm = Asm(bitstream, features, features_by_bits)
         /\ st.unknown = unknown_features
         /\ st.raised <=> (log # <<>> /\ log[Len(log)].out = "conflict")

\* C3's case: a line raised LookupError, the line after it was processed and
\* wrote its bits, and the list holds the first line only
C3_Witness ==
    /\ Len(log) = 2
    /\ log[1].out = "lookup"
    /\ log[2].out = "ok" /\ BitsOf(2) # <<>>
    /\ unknown_features = <<fasm_lines[1]>>
    /\ pc = "assemble"

\* The last processed line raised FeatureConflict
Conflicted == log # <<>> /\ log[Len(log)].out = "conflict"

\* C4: the bitstream file is written iff no line raised FeatureConflict and
\* no line raised LookupError. A FeatureConflict ends the run at once with
\* status -1 and nothing written, whatever the lines before it did; without
\* one, the run ends with -1 and nothing written exactly when some line
\* raised LookupError, and that only after the last line of the file.
C4_OutputWritten ==
    /\ bitstream1.written => (~Conflicted /\ LookupLines(Len(log)) = <<>>)
    /\ pc # "assemble" =>
         (bitstream1.written <=> (~Conflicted /\ LookupLines(Len(log)) = <<>>))
    /\ \A n \in 1..Len(log) : log[n].out = "conflict" => n = Len(log)
    /\ Conflicted => (pc = "exit" /\ exit_status = -1)
    /\ (pc = "exit" /\ ~Conflicted) =>
         (LookupLines(Len(log)) # <<>> /\ exit_status = -1)
    /\ pc = "assemble" => (exit_status = 0 /\ ~bitstream1.written)
    /\ pc = "written" => (exit_status = 0 /\ bitstream1.written)

\* C4's case: the first line is unknown, the second raises FeatureConflict:
\* the run ends at once, with the conflict, and writes nothing
C4_Witness ==
    /\ Len(log) = 2
    /\ log[1].out = "lookup"
    /\ unknown_features = <<fasm_lines[1]>>
    /\ log[2].out = "conflict"
    /\ pc = "exit" /\ exit_status = -1 /\ ~bitstream1.written

\* The pattern the database holds for bit idx of a feature of a block, as a
\* set: empty when there is none
PatternOf(segbits, base_name, idx) ==
    IF base_name \notin DOMAIN segbits THEN {}
    ELSE IF idx = 0 /\ None \in DOMAIN segbits[base_name] THEN {segbits[base_name][None]}
    ELSE IF idx \in DOMAIN segbits[base_name] THEN {segbits[base_name][idx]}
    ELSE {}

\* The <<address, value>> pairs of the footprints of the value-1 records of a
\* line that were applied: those with a pattern, up to the first value-1
\* record without one (where the line raises LookupError)
Applied(line) ==
    IF ~line.has THEN {}
    ELSE LET f    == line.set_feature.feature
             blk  == ResolveBlock(database, f)
             recs == Records(line)
             pat(p) == PatternOf(blk.segbits, BaseName(f.local), recs[p][2])
             reached(p) == \A q \in 1..p : recs[q][3] = 1 => pat(q) # {}
             inv  == IF f.local[Len(f.local)][1] THEN 1 ELSE 0
         IN  IF ~blk.ok THEN {}
             ELSE UNION { { <<bits[i].idx + blk.offset, (bits[i].val + inv) % 2>> :
                              i \in 1..Len(bits) } :
                          bits \in UNION { pat(p) : p \in {q \in 1..Len(recs) :
                                                    recs[q][3] = 1 /\ reached(q)} } }

AppliedAll == UNION { Applied(fasm_lines[n]) : n \in 1..Len(fasm_lines) }

\* C5: when no line raised FeatureConflict, every address in the footprint of
\* an applied value-1 record holds the pattern's value (complemented for a
\* NOT_ line) and every other address holds the seed's value, 0 without a
\* default bitstream; and the first write of a call to an address never
\* raises FeatureConflict, whatever the seed holds there.
C5_OverlayOnSeed ==
    /\ ~Conflicted =>
         \A applied \in {AppliedAll} : \A a \in 0..(database.bitstream_size - 1) :
            LET W == {w[2] : w \in {x \in applied : x[1] = a}}
            IN  IF W = {} THEN bitstream[a + 1] = SeedBits[a + 1]
                ELSE W = {bitstream[a + 1]}
    /\ \A be \in {BitEvents} : \A n \in 1..Len(be) :
         (\A m \in 1..(n - 1) : be[m].e.address # be[n].e.address) => ~be[n].e.raised

\* C5's case: a default bitstream is given, a line overwrote a seed bit with
\* the other value without a conflict, and a set seed bit outside every
\* applied footprint is still set
C5_Witness ==
    /\ default_bitstream.given
    /\ ~Conflicted
    /\ \E n \in 1..Len(BitEvents) :
         /\ ~BitEvents[n].e.had /\ ~BitEvents[n].e.raised
         /\ BitEvents[n].e.old # BitEvents[n].e.value
         /\ bitstream[BitEvents[n].e.address + 1] = BitEvents[n].e.value
    /\ \E a \in 0..(database.bitstream_size - 1) :
         /\ a \notin {x[1] : x \in AppliedAll}
         /\ SeedBits[a + 1] = 1 /\ bitstream[a + 1] = 1

\* The assembler state before the last processed line
BeforeLast ==
    assemble_bitstream(database, SubSeq(fasm_lines, 1, Len(fasm_lines) - 1), 1,
                       NewAssembler(database, default_bitstream)).asm

\* All records of the line have value 0
AllCleared(line) ==
    line.has /\ \A p \in 1..Len(Records(line)) : Records(line)[p][3] = 0

\* C6: a single-bit record with value 0 that passed the feature-value check
\* is followed by no segbit lookup and no bit write: the next step of the line
\* is the check of its next record. A line of such records leaves the bit
\* array and the per-address table as they were, and adds to the feature
\* table exactly the keys it checked that were not yet recorded, each with
\* (0, the line).
C6_ClearedRecord ==
    /\ \A n \in 1..Len(log) : \A p \in 1..Len(log[n].ev) :
         (log[n].ev[p].t = "feat" /\ log[n].ev[p].value = 0)
            => /\ p < Len(log[n].ev) => log[n].ev[p + 1].t = "feat"
               /\ (p = Len(log[n].ev) /\ ~log[n].ev[p].raised) => log[n].out = "ok"
    /\ (log # <<>> /\ AllCleared(fasm_lines[Len(log)])) =>
         \A n \in {Len(log)} : \A pre \in {BeforeLast} : \A fo \in {FeatOf(n)} :
         LET keys == {KeyOf(fo[p]) : p \in {q \in 1..Len(fo) : ~fo[q].raised}}
         IN  /\ bitstream = pre.bitstream
             /\ features_by_bits = pre.features_by_bits
             /\ BitsOf(n) = <<>>
             /\ DOMAIN features = DOMAIN pre.features \cup keys
             /\ \A k \in DOMAIN features :
                  features[k] = IF k \in DOMAIN pre.features THEN pre.features[k]
                                ELSE <<0, fasm_lines[n]>>

\* C6's case: after a line that wrote bits, a value-0 line for a feature of
\* the database is processed: its key is recorded with (0, line), no bit is
\* written and no address is added to the per-address table
C6_Witness ==
    /\ Len(log) = 2
    /\ BitsOf(1) # <<>>
    /\ AllCleared(fasm_lines[2]) /\ log[2].out = "ok"
    /\ PatternOf(ResolveBlock(database, fasm_lines[2].set_feature.feature).segbits,
                 BaseName(fasm_lines[2].set_feature.feature.local),
                 Records(fasm_lines[2])[1][2]) # {}
    /\ KeyOf(FeatOf(2)[1]) \notin DOMAIN BeforeLast.features
    /\ features[KeyOf(FeatOf(2)[1])] = <<0, fasm_lines[2]>>
    /\ bitstream = BeforeLast.bitstream /\ bitstream # SeedBits

\* The line with NOT_ taken off its last component
Plain(line) == [line EXCEPT !.set_feature.feature.local = BaseName(@)]

LastInverted(line) ==
    LET local == line.set_feature.feature.local
    IN  line.has /\ Len(local) > 0 /\ local[Len(local)][1]

InnerInverted(line) ==
    LET local == line.set_feature.feature.local
    IN  line.has /\ \E i \in 1..(Len(local) - 1) : local[i][1]

\* C7: on a fresh assembler a line whose last component is spelled NOT_X
\* ends as the line spelled X does, writes exactly the addresses that line
\* writes, each with the complement of the value that line writes there, and
\* leaves every other address at the seed's value. NOT_ on a component that
\* is not the last is part of the name: the line is looked up under that name
\* (which no block has) and writes nothing.
C7_Inversion ==
    /\ (Len(log) = 1 /\ LastInverted(fasm_lines[1])) =>
         LET fresh == NewAssembler(database, default_bitstream).asm
             x     == process_fasm_line(database, Plain(fasm_lines[1]), fresh)
             foot  == DOMAIN x.asm.features_by_bits
         IN  /\ log[1].out = x.out
             /\ DOMAIN features_by_bits = foot
             /\ \A a \in 0..(database.bitstream_size - 1) :
                  bitstream[a + 1] = IF a \in foot THEN 1 - x.asm.bitstream[a + 1]
                                     ELSE SeedBits[a + 1]
    /\ (Len(log) = 1 /\ InnerInverted(fasm_lines[1]) /\ ~LastInverted(fasm_lines[1])
         /\ ~AllCleared(fasm_lines[1])) =>
         /\ log[1].out = "lookup"
         /\ BitsOf(1) = <<>>
         /\ bitstream = SeedBits

\* C7's case: a NOT_X line on a fresh assembler wrote the complement of a
\* pattern that has a set and a cleared bit
C7_Witness ==
    /\ Len(log) = 1 /\ LastInverted(fasm_lines[1]) /\ log[1].out = "ok"
    /\ \E p, q \in 1..Len(BitsOf(1)) :
         /\ BitsOf(1)[p].value = 0 /\ bitstream[BitsOf(1)[p].address + 1] = 0
         /\ BitsOf(1)[q].value = 1 /\ bitstream[BitsOf(1)[q].address + 1] = 1

\* -------------------------------------------------------------------------
\* Properties of the round trips

\* The blocks of a database: tiles under grid_<type>_<x>__<y>_, switchboxes
\* under <type>_<x>__<y>_, each with its feature table and absolute offset
DbBlocks(db) ==
    { [tag    |-> Tag(TRUE, db.tiles[loc].type, loc[1], loc[2]),
       seg    |-> db.tiles[loc].type,
       offset |-> db.tiles[loc].offset + db.regions[db.tiles[loc].region].offset] :
        loc \in DOMAIN db.tiles }
    \cup
    UNION { { [tag    |-> Tag(FALSE, kind, loc[1], loc[2]),
               seg    |-> kind \o "_" \o ToString(db.routing[loc][kind].variant),
               offset |-> db.routing[loc][kind].offset
                            + db.regions[db.routing[loc][kind].region].offset] :
                kind \in DOMAIN db.routing[loc] } : loc \in DOMAIN db.routing }

\* Every (feature, bit index) of every block, with its pattern as a set of
\* <<absolute address, value>>
DbPatterns(db) ==
    UNION { UNION { { [feature |-> Feature(FEATURE_PREFIX, b.tag, name),
                       idx     |-> IF k = None THEN 0 ELSE k,
                       bits    |-> { <<db.segbits[b.seg][name][k][i].idx + b.offset,
                                       db.segbits[b.seg][name][k][i].val>> :
                                        i \in 1..Len(db.segbits[b.seg][name][k]) }] :
                        k \in DOMAIN db.segbits[b.seg][name] } :
                    name \in DOMAIN db.segbits[b.seg] } :
            b \in DbBlocks(db) }

\* The patterns a bit array matches
Matching(db, bits) ==
    { p \in DbPatterns(db) : \A b \in p.bits : bits[b[1] + 1] = b[2] }

\* A database like the ones the builder emits: every pattern bit is a set
\* bit and no two patterns share an address
SimpleDb(db) ==
    /\ \A p \in DbPatterns(db) : \A b \in p.bits : b[2] = 1
    /\ \A p, q \in DbPatterns(db) :
         p # q => {b[1] : b \in p.bits} \cap {b[1] : b \in q.bits} = {}

\* The <<feature, bit index>> of the value-1 single-bit records of some lines
Ones(lines) ==
    UNION { { <<r[1], r[2]>> : r \in {x \in Range(Records(lines[n])) : x[3] = 1} } :
            n \in 1..Len(lines) }

\* The <<feature, bit index>> of all their single-bit records
Keys(lines) ==
    UNION { { <<r[1], r[2]>> : r \in Range(Records(lines[n])) } : n \in 1..Len(lines) }

\* The feature names its tile by the tile's type (switchboxes always do)
OwnType(f) ==
    f.tag.grid => database.tiles[<<f.tag.x, f.tag.y>>].type = f.tag.name

\* The feature with NOT_ taken off its last component
Positive(f) == [f EXCEPT !.local = BaseName(@)]

TxtRoundTrip ==
    pc = "disassembled" /\ bitstream1.format = "txt" /\ ~default_bitstream.given

\* C8, as the spec states it, read in its weakest form (value-1 records only
\* on both sides): the value-1 single-bit records of the disassembly are
\* exactly those of F.
C8_AsStated ==
    TxtRoundTrip => Ones(ParseFasm(fasm1.features)) = Ones(fasm_lines)

\* C8, amended: the disassembly holds one record for every feature of every
\* block of the database, with bit k set iff the (feature, k) pattern matches
\* the assembled bit array. Every value-1 record of F that is spelled without
\* NOT_ and names its tile by the tile's type is among its value-1 records;
\* for a value-1 record NOT_X of F, X is not. The value-1 records are exactly
\* those of F when F has no value-1 NOT_ record, names every tile by its type,
\* and the database's patterns are set bits with pairwise disjoint footprints.
C8_TxtRoundTrip ==
    TxtRoundTrip =>
        LET dis == Ones(ParseFasm(fasm1.features))
            src == Ones(fasm_lines)
        IN  /\ Keys(ParseFasm(fasm1.features))
                 = {<<p.feature, p.idx>> : p \in DbPatterns(database)}
            /\ Len(fasm1.features) = Cardinality({p.feature : p \in DbPatterns(database)})
            /\ dis = {<<p.feature, p.idx>> : p \in Matching(database, bitstream)}
            /\ \A r \in src :
                 OwnType(r[1]) =>
                    IF IsInverted(r[1].local) = 1
                    THEN <<Positive(r[1]), r[2]>> \notin dis
                    ELSE r \in dis
            /\ ( /\ SimpleDb(database)
                 /\ \A r \in src : OwnType(r[1]) /\ IsInverted(r[1].local) = 0 )
               => dis = src

\* C8's case: F has a ranged line and a line of another block, is assembled
\* to a txt file without a default bitstream, and its value-1 records are
\* exactly the value-1 records of the disassembly
C8_Witness ==
    /\ TxtRoundTrip
    /\ Len(fasm_lines) = 2
    /\ fasm_lines[1].set_feature.end # None
    /\ fasm_lines[2].has
    /\ fasm_lines[1].set_feature.feature.tag # fasm_lines[2].set_feature.feature.tag
    /\ Cardinality(Ones(fasm_lines)) >= 2
    /\ Ones(ParseFasm(fasm1.features)) = Ones(fasm_lines)

\* C9, as the spec states it: a FASM file assembled without conflict and
\* unknown features (no default bitstream) and written as a 4-byte file with
\* checksums is read back by from_file(with_crc = True) as an object whose
\* checksums validate, and the disassembly of its bits has exactly the
\* value-1 single-bit records of F.
C9_AsStated ==
    ( /\ bitstream1.written /\ bitstream1.format = "4byte" /\ bitstream1.with_crc
      /\ ~default_bitstream.given )
    => /\ FileParses(bitstream1.words)
       /\ validate_checksums(FourByteFromFile(bitstream1.words, TRUE), database)
       /\ pc # "crash"
       /\ pc = "disassembled" => Ones(ParseFasm(fasm1.features)) = Ones(fasm_lines)

\* The bits the data of a bitstream file decodes to: the characters of a txt
\* file, the data words of a 4-byte file (its checksum words left aside)
DataBits(file) ==
    IF file.format = "txt" THEN TextToBits(TextFromFile(file.text), database)
    ELSE FourByteToBits(FourByteFromFile(file.words, file.with_crc), database)

\* The addresses in the footprints of the patterns a bit array matches
MatchedFootprint(bits) ==
    UNION { {b[1] : b \in p.bits} : p \in Matching(database, bits) }

\* Every address of the database is in the footprint of some pattern
Covered(db) ==
    \A a \in 0..(db.bitstream_size - 1) :
        \E p \in DbPatterns(db) : a \in {b[1] : b \in p.bits}

\* C10, as the spec states it: decoding B, disassembling, assembling the
\* records and encoding in the same format gives a file whose data decodes to
\* the bits B decodes to.
C10_AsStated ==
    (bitstream2.written /\ ~default_bitstream.given)
        => DataBits(bitstream2) = DataBits(bitstream1)

\* C10, amended: the disassembled records of any readable bitstream B
\* assemble without conflict and without unknown features, and the data of
\* the file written in the same format decodes to the bits of B at every
\* address in the footprint of a pattern that B matches and to 0 at every
\* other address. It decodes to the bits of B iff every set bit of B lies in
\* such a footprint; this is so for every B when the database's patterns are
\* set bits with pairwise disjoint footprints that cover every address, and
\* then a 4-byte file the encoder wrote is reproduced word for word.
C10_BitstreamRoundTrip ==
    /\ pc # "exit"
    /\ (bitstream2.written /\ ~default_bitstream.given) =>
         LET b1   == DataBits(bitstream1)
             b2   == DataBits(bitstream2)
             foot == MatchedFootprint(b1)
         IN  /\ b2 = bitstream
             /\ bitstream2.format = bitstream1.format
             /\ bitstream2.with_crc = bitstream1.with_crc
             /\ \A a \in 0..(database.bitstream_size - 1) :
                  b2[a + 1] = IF a \in foot THEN b1[a + 1] ELSE 0
             /\ (b2 = b1) <=>
                  (\A a \in 0..(database.bitstream_size - 1) : b1[a + 1] = 1 => a \in foot)
             /\ (SimpleDb(database) /\ Covered(database)) =>
                  /\ b2 = b1
                  /\ bitstream1.format = "4byte" => bitstream2 = bitstream1

\* C10's case: B has set bits inside and outside the footprints of the
\* patterns it matches; the reassembled bitstream keeps the former only
C10_Witness ==
    /\ pc = "reassembled" /\ ~default_bitstream.given
    /\ LET b1 == DataBits(bitstream1)
       IN  /\ \E a \in MatchedFootprint(b1) : b1[a + 1] = 1 /\ bitstream[a + 1] = 1
           /\ \E a \in 0..(database.bitstream_size - 1) :
                a \notin MatchedFootprint(b1) /\ b1[a + 1] = 1 /\ bitstream[a + 1] = 0

\* The records of a list with a non-zero value, as a set
NonZero(feats) == {r \in Range(feats) : r.value # 0}

\* A run of bitstream -> FASM -> bitstream -> FASM that wrote the second FASM
SecondFasm == pc = "redisassembled"

Built == pc \in {"encoded", "decoded", "filed"}

\* The number of regions and the length of the longest one
R == Cardinality(DOMAIN database.regions)

Lmax == CHOOSE l \in {database.regions[r].length : r \in DOMAIN database.regions} :
            \A r \in DOMAIN database.regions : database.regions[r].length <= l

\* C12: TextBitstream.from_bits returns R * Lmax entries; for every region r
\* the entries [r*Lmax, r*Lmax + length_r) are the flat array's entries
\* [offset_r, offset_r + length_r) and the entries up to (r+1)*Lmax are zero.
C12_TextLayout ==
    (Built /\ encoded.format = "txt") =>
        /\ Len(encoded.bitstream) = R * Lmax
        /\ \A r \in DOMAIN database.regions :
             /\ \A k \in 0..(database.regions[r].length - 1) :
                  encoded.bitstream[r * Lmax + k + 1]
                      = bitstream[database.regions[r].offset + k + 1]
             /\ \A k \in database.regions[r].length..(Lmax - 1) :
                  encoded.bitstream[r * Lmax + k + 1] = 0

\* C12's case: a region shorter than the longest one, stored at another
\* place than its slot, ends with a set bit, and its padding follows
C12_Witness ==
    /\ Built /\ encoded.format = "txt"
    /\ \E r \in DOMAIN database.regions :
         /\ database.regions[r].length < Lmax
         /\ database.regions[r].offset # r * Lmax
         /\ bitstream[database.regions[r].offset + database.regions[r].length] = 1
         /\ encoded.bitstream[r * Lmax + database.regions[r].length] = 1
         /\ encoded.bitstream[r * Lmax + database.regions[r].length + 1] = 0

\* The regions have the ids 0..R-1 and pairwise disjoint ranges that cover
\* [0, bitstream_size)
RegionsPartition(db) ==
    /\ DOMAIN db.regions = 0..(Cardinality(DOMAIN db.regions) - 1)
    /\ \A a \in 0..(db.bitstream_size - 1) :
         Cardinality({r \in DOMAIN db.regions :
                        /\ db.regions[r].offset <= a
                        /\ a < db.regions[r].offset + db.regions[r].length}) = 1
    /\ \A r \in DOMAIN db.regions :
         db.regions[r].offset + db.regions[r].length <= db.bitstream_size

\* C13: for a database whose regions have the ids 0..R-1 and partition
\* [0, bitstream_size), to_bits of the object from_bits made of a flat array
\* is that array, for the txt and for the 4-byte encoding (with or without
\* checksums set on the object).
C13_DecodeInvertsEncode ==
    (pc = "decoded" /\ RegionsPartition(database)) => decoded = bitstream

\* C13's case: a flat array with set and cleared bits in every region went
\* through the 4-byte encoding of a database whose region ids are not in the
\* order of the offsets, and came back
C13_Witness ==
    /\ pc = "decoded" /\ encoded.format = "4byte"
    /\ RegionsPartition(database)
    /\ \E r, q \in DOMAIN database.regions :
         r < q /\ database.regions[r].offset > database.regions[q].offset
    /\ \A r \in DOMAIN database.regions :
         \E i, j \in 1..database.regions[r].length :
            /\ bitstream[database.regions[r].offset + i] = 1
            /\ bitstream[database.regions[r].offset + j] = 0
    /\ decoded = bitstream

\* to_bits runs on a txt object whose padding was edited
Redecode == pc = "edited" /\ pc' = "redecoded"

\* C14, as the spec states it: zero bits put into or taken out of the padding
\* of any region leave the array to_bits returns as it was.
C14_AsStated == [][Redecode => decoded' = decoded]_vars

\* C14, amended: zero bits appended after the slot of the last region
\* (id R-1), or taken from the padding at its end, leave the array to_bits
\* returns as it was; to_bits reads region r at r * Lmax whatever the length
\* of the array, so bits put into or taken out of the padding of an earlier
\* region move the data of the regions after it and the array can change.
C14_PaddingNeutrality ==
    [][(Redecode /\ log[1].region = R - 1) => decoded' = decoded]_vars

\* C14's cases: two padding bits of the last region were taken out and the
\* array with set bits in that region decoded as before; a bit was put into
\* the padding of the first region and the array decoded to another one
C14_Witness ==
    /\ pc = "redecoded"
    /\ log[1].region = R - 1 /\ log[1].op = "remove" /\ log[1].bits = 2
    /\ Len(encoded.bitstream) = R * Lmax - 2
    /\ \E k \in 1..database.regions[R - 1].length :
         bitstream[database.regions[R - 1].offset + k] = 1
    /\ decoded = bitstream

C14_Moved ==
    /\ pc = "redecoded"
    /\ log[1].region = 0 /\ log[1].op = "insert" /\ log[1].bits = 1
    /\ RegionsPartition(database)
    /\ decoded # bitstream

\* Bit b of a word
BitOf(w, b) == IF b < 16 THEN (w.lo \div (2 ^ b)) % 2 ELSE (w.hi \div (2 ^ (b - 16))) % 2

\* The lines of a 4-byte file are those of an object: the two checksums when
\* the object has them, then the data words w_{L-1}, ..., w_0, bit b of w_i
\* being set iff plane b holds 1 at position i
FileLayout(file, fb) ==
    LET L   == Len(fb.bit_planes[0])
        crc == IF fb.has_crc THEN 2 ELSE 0
    IN  /\ Len(file.words) = crc + L
        /\ fb.has_crc => (file.words[1] = fb.head_crc /\ file.words[2] = fb.tail_crc)
        /\ \A i \in 0..(L - 1) : \A b \in Planes :
             BitOf(file.words[crc + L - i], b) = fb.bit_planes[b][i + 1]

\* C15, as the spec states it: to_file writes the head and the tail checksum
\* exactly when the object has them, then the data words in reverse order,
\* bit b of word i from plane b; from_file reads the file it wrote and, told
\* of the checksums the object has, gives the object's planes and checksums.
C15_AsStated ==
    [][ /\ (pc = "encoded" /\ pc' = "filed" /\ encoded.format = "4byte")
             => FileLayout(bitstream1', encoded.fb)
        /\ (pc = "filed" /\ pc' # "filed" /\ encoded.format = "4byte")
             => /\ pc' = "parsed"
                /\ encoded'.fb.has_crc = encoded.fb.has_crc => encoded' = encoded ]_vars

\* A word is a 32-bit value
Is32Bit(w) == w.hi \in 0..65535 /\ w.lo \in 0..65535

\* C16, as the spec states it: the checksums compute_and_set_checksums puts
\* on an object are 32-bit values, every line to_file writes holds eight hex
\* digits, and from_file accepts the file.
C16_AsStated ==
    /\ (encoded.format = "4byte" /\ encoded.fb.has_crc)
          => (Is32Bit(encoded.fb.head_crc) /\ Is32Bit(encoded.fb.tail_crc))
    /\ (bitstream1.written /\ bitstream1.format = "4byte")
          => \A i \in 1..Len(bitstream1.words) :
                Is32Bit(bitstream1.words[i]) /\ HexDigits(bitstream1.words[i]) = 8
    /\ pc # "crash"

\* The spec's accumulator <<c0, c1>> after the first n words of a stream
RECURSIVE Fletcher(_, _)
Fletcher(words, n) ==
    IF n = 0 THEN <<0, 0>>
    ELSE LET c   == Fletcher(words, n - 1)
             c0l == (c[1] + words[n].lo) % 65536
             c1l == (c0l + c[2]) % 65536
             c0h == (c0l + words[n].hi) % 65536
             c1h == (c0h + c1l) % 65536
         IN  <<c0h, c1h>>

\* The spec's complement of a stream, by halves: checkbyte0 is
\* 0x10000 - ((c0 + c1) mod 2^16), the word is
\* ((0x10000 - ((c0 + checkbyte0) mod 2^16)) << 16) | checkbyte0
FletcherComplement(words) ==
    LET c          == Fletcher(words, Len(words))
        checkbyte0 == 65536 - ((c[1] + c[2]) % 65536)
        checkbyte1 == 65536 - ((c[1] + checkbyte0) % 65536)
        carry      == checkbyte0 \div 65536
    IN  Word(IF carry = 1 /\ checkbyte1 % 2 = 0 THEN checkbyte1 + 1 ELSE checkbyte1,
             checkbyte0 % 65536)

\* The word made of one bit of every plane
WordOfBits(bitAt(_)) ==
    LET RECURSIVE Sum(_, _)
        Sum(b, last) == IF b > last THEN 0 ELSE bitAt(b) * (2 ^ (b % 16)) + Sum(b + 1, last)
    IN  Word(Sum(16, 31), Sum(0, 15))

\* The reversed word stream of the planes padded at high positions: word j
\* of the stream is word Lmax-1-j, bit b of word i is plane b at position i
HeadStream(fb) ==
    [j \in 1..Lmax |->
        LET bitAt(b) == fb.bit_planes[b][Lmax + 1 - j] IN WordOfBits(bitAt)]

\* The reversed word stream of the planes padded at low positions: plane r's
\* data is at positions [Lmax - length_r, Lmax)
TailStream(fb) ==
    [j \in 1..Lmax |->
        LET i == Lmax - j
            bitAt(b) == IF b \in DOMAIN database.regions
                           /\ i >= Lmax - database.regions[b].length
                        THEN fb.bit_planes[b][i - (Lmax - database.regions[b].length) + 1]
                        ELSE 0
        IN  WordOfBits(bitAt)]

\* C17: the head checksum is the spec's complement of the reversed word
\* stream of the planes padded at high positions, which is the data words as
\* written to the file; the tail checksum is the complement of the reversed
\* stream of the planes padded at low positions, its first word dropped and
\* a zero word appended.
C17_Checksums ==
    (Built /\ encoded.format = "4byte" /\ encoded.fb.has_crc) =>
        /\ encoded.fb.head_crc = FletcherComplement(HeadStream(encoded.fb))
        /\ encoded.fb.tail_crc =
              FletcherComplement(SubSeq(TailStream(encoded.fb), 2, Lmax) \o <<Word(0, 0)>>)
        /\ pc = "filed" =>
              /\ SubSeq(bitstream1.words, 3, Len(bitstream1.words)) = HeadStream(encoded.fb)
              /\ bitstream1.words[1] = encoded.fb.head_crc
              /\ bitstream1.words[2] = encoded.fb.tail_crc

\* C17's case: a region shorter than the longest one holds set bits, the two
\* streams differ, and so do the two checksums, which are 32-bit values
C17_Witness ==
    /\ pc = "filed" /\ encoded.format = "4byte" /\ encoded.fb.has_crc
    /\ HeadStream(encoded.fb) # TailStream(encoded.fb)
    /\ encoded.fb.head_crc # encoded.fb.tail_crc
    /\ Is32Bit(encoded.fb.head_crc) /\ Is32Bit(encoded.fb.tail_crc)
    /\ encoded.fb.head_crc = FletcherComplement(HeadStream(encoded.fb))
    /\ bitstream1.words[2] =
          FletcherComplement(SubSeq(TailStream(encoded.fb), 2, Lmax) \o <<Word(0, 0)>>)

\* -------------------------------------------------------------------------
\* Properties of the driver's checksum handling

\* The input file went through from_file
Loaded == pc \in {"decoded", "loaded", "written"}

\* C18, as the spec states it. With --no-crc no checksum words are read from
\* the bitstream to disassemble or from the default bitstream (every line of
\* the file is a data word, and the run goes on with the bits they decode
\* to), and none are written. Without it the stored pair is validated before
\* decoding: on a mismatch the run ends with -1 unless --no-check-crc is
\* given, and goes on with the decoded bits otherwise.
C18_AsStated ==
    /\ (pc # "start" /\ args.no_crc) =>
          /\ Loaded
          /\ ~encoded.fb.has_crc
          /\ decoded = FourByteToBits(FourByteFromFile(bitstream1.words, FALSE), database)
    /\ (pc # "start" /\ ~args.no_crc) =>
          \A valid \in {validate_checksums(FourByteFromFile(bitstream1.words, TRUE), database)} :
             IF ~valid /\ ~args.no_check_crc
             THEN pc = "exit" /\ exit_status = -1 /\ decoded = <<>>
             ELSE /\ Loaded
                  /\ encoded.fb.has_crc
                  /\ decoded = FourByteToBits(FourByteFromFile(bitstream1.words, TRUE), database)
    /\ bitstream2.written =>
          /\ bitstream2.with_crc <=> ~args.no_crc
          /\ Len(bitstream2.words) = Lmax + (IF args.no_crc THEN 0 ELSE 2)

\* -------------------------------------------------------------------------
\* Properties of the disassembler

\* C19: the disassembly of a flat bit array has a bit for every feature and
\* sub-index of every block, and the bit is 1 iff the array holds v at the
\* absolute address regions[block.region].offset + block.offset + i for every
\* bit (i, v) of the pattern, zero-valued bits included. The assembler, given
\* the disassembled records, writes exactly the addresses of the patterns
\* that matched, with the values the array holds there.
C19_PatternMatch ==
    fasm1.written =>
        \A bits \in {DataBits(bitstream1)} :
           /\ Keys(ParseFasm(fasm1.features))
                 = {<<p.feature, p.idx>> : p \in DbPatterns(database)}
           /\ \A p \in DbPatterns(database) :
                 (<<p.feature, p.idx>> \in Ones(ParseFasm(fasm1.features)))
                     <=> (\A b \in p.bits : bits[b[1] + 1] = b[2])
           /\ bitstream2.written =>
                 /\ DOMAIN features_by_bits = MatchedFootprint(bits)
                 /\ \A a \in DOMAIN features_by_bits : bitstream[a + 1] = bits[a + 1]

\* C19's case: one pattern with a zero-valued bit matches an array that holds
\* 0 there, another with the same set bit fails only because of the 1 the
\* array holds under its zero-valued bit, and the assembler wrote the 0
C19_Witness ==
    /\ bitstream2.written
    /\ \E p, q \in DbPatterns(database) :
         /\ <<p.feature, p.idx>> \in Ones(ParseFasm(fasm1.features))
         /\ <<q.feature, q.idx>> \notin Ones(ParseFasm(fasm1.features))
         /\ \E b \in p.bits : b[2] = 0 /\ b[1] \in DOMAIN features_by_bits
                                /\ bitstream[b[1] + 1] = 0
         /\ \E b \in q.bits :
               /\ b[2] = 0 /\ DataBits(bitstream1)[b[1] + 1] = 1
               /\ \A c \in q.bits \ {b} : DataBits(bitstream1)[c[1] + 1] = c[2]

\* The sub-indices the database holds for a feature of a block
SubIndices(f) == {p.idx : p \in {q \in DbPatterns(database) : q.feature = f}}

\* 1 when the (feature, sub-index) pattern matches the bit array, else 0
MatchBit(f, k, bits) ==
    IF \E p \in Matching(database, bits) : p.feature = f /\ p.idx = k THEN 1 ELSE 0

RECURSIVE WeightedSum(_, _, _)
WeightedSum(f, K, bits) ==
    IF K = {} THEN 0
    ELSE LET k == CHOOSE x \in K : TRUE
         IN  MatchBit(f, k, bits) * (2 ^ k) + WeightedSum(f, K \ {k}, bits)

\* C20: disassemble_bitstream emits exactly one record for every feature of
\* every block; a feature of width w >= 2 has start = 0, end = w - 1 and the
\* value sum of match(k) * 2^k over k in 0..w-1; a feature of width 1 is
\* unindexed and its value is its match result.
C20_Aggregation ==
    fasm1.written =>
        \A bits \in {DataBits(bitstream1)} :
           /\ {fasm1.features[n].feature : n \in 1..Len(fasm1.features)}
                 = {p.feature : p \in DbPatterns(database)}
           /\ \A m, n \in 1..Len(fasm1.features) :
                 fasm1.features[m].feature = fasm1.features[n].feature => m = n
           /\ \A n \in 1..Len(fasm1.features) :
                 LET r == fasm1.features[n]
                     w == Cardinality(SubIndices(r.feature))
                 IN  /\ SubIndices(r.feature) = 0..(w - 1)
                     /\ IF w >= 2
                        THEN /\ r.start = 0 /\ r.end = w - 1
                             /\ r.value = WeightedSum(r.feature, 0..(w - 1), bits)
                        ELSE /\ r.start = None /\ r.end = None
                             /\ r.value = MatchBit(r.feature, 0, bits)

\* C20's case: a feature of width 2 is emitted as [1:0] = 2 (sub-index 1
\* matches, sub-index 0 does not) next to an unindexed feature of value 1
C20_Witness ==
    /\ fasm1.written
    /\ \E m, n \in 1..Len(fasm1.features) :
         /\ fasm1.features[m].start = 0 /\ fasm1.features[m].end = 1
         /\ fasm1.features[m].value = 2
         /\ MatchBit(fasm1.features[m].feature, 1, DataBits(bitstream1)) = 1
         /\ MatchBit(fasm1.features[m].feature, 0, DataBits(bitstream1)) = 0
         /\ fasm1.features[n].start = None /\ fasm1.features[n].end = None
         /\ fasm1.features[n].value = 1

\* C21: the force-bit file holds exactly one line force f[k]=1'b1 for
\* every sub-index k of a feature f that disassembled to 1 (k = 0 for an
\* unindexed feature) and no other line, with or without --unset-features;
\* the FASM output holds every non-zero record, and a zero-valued record only
\* with --unset-features (then it holds all of them).
C21_ForceBit ==
    fasm1.written =>
        \A set \in {{<<p.feature, p.idx>> : p \in Matching(database, DataBits(bitstream1))}} :
           /\ Range(fasm1.force_bit) = {ForceLine(x[1], x[2], 1) : x \in set}
           /\ Len(fasm1.force_bit) = Cardinality(set)
           /\ NonZero(fasm1.features) \subseteq Range(fasm1.lines)
           /\ Range(fasm1.lines) \subseteq Range(fasm1.features)
           /\ (\E n \in 1..Len(fasm1.lines) : fasm1.lines[n].value = 0) => fasm1.unset_features
           /\ fasm1.unset_features => fasm1.lines = fasm1.features

\* C21's case: with --unset-features the FASM output holds a zero-valued
\* record, a feature [1:0] = 2 gives the one line for sub-index 1, an
\* unindexed feature the line for index 0, and no line is for a cleared bit
C21_Witness ==
    /\ fasm1.written /\ fasm1.unset_features
    /\ \E n \in 1..Len(fasm1.lines) : fasm1.lines[n].value = 0
    /\ \E n \in 1..Len(fasm1.features) :
         /\ fasm1.features[n].end = 1 /\ fasm1.features[n].value = 2
         /\ ForceLine(fasm1.features[n].feature, 1, 1) \in Range(fasm1.force_bit)
         /\ ForceLine(fasm1.features[n].feature, 0, 1) \notin Range(fasm1.force_bit)
    /\ \E n \in 1..Len(fasm1.features) :
         /\ fasm1.features[n].start = None /\ fasm1.features[n].value = 1
         /\ ForceLine(fasm1.features[n].feature, 0, 1) \in Range(fasm1.force_bit)
    /\ \A n \in 1..Len(fasm1.force_bit) : fasm1.force_bit[n].value = 1

\* Block a comes before block b, or is b: tiles before routing blocks, and
\* within each kind by row (y), then by column (x)
BlockLeq(a, b) ==
    IF a.grid # b.grid THEN a.grid
    ELSE a.y < b.y \/ (a.y = b.y /\ a.x <= b.x)

\* C22, as the spec states it: the records of the disassembly list the tile
\* features first, the tiles sorted by location, then the routing features,
\* the routing blocks sorted by location, whatever the order of the entries
\* of the device descriptor.
C22_AsStated ==
    fasm1.written =>
        \A m, n \in 1..Len(fasm1.features) :
            m < n => BlockLeq(fasm1.features[m].feature.tag, fasm1.features[n].feature.tag)

\* -------------------------------------------------------------------------
\* Unknown features

\* The feature table a block tag stands for, as the feature-resolution rules
\* name it: the table of the tag's type for a tile at the tag's location, the
\* table of the kind and variant of the routing block at the location
BlockTable(db, feature) ==
    LET none == [ok |-> FALSE, table |-> EmptyDict]
        loc  == <<feature.tag.x, feature.tag.y>>
    IN  IF Len(feature.local) < 1 \/ feature.prefix # FEATURE_PREFIX \/ ~feature.tag.m
        THEN none
        ELSE IF feature.tag.grid
        THEN IF loc \in DOMAIN db.tiles /\ feature.tag.name \in DOMAIN db.segbits
             THEN [ok |-> TRUE, table |-> db.segbits[feature.tag.name]]
             ELSE none
        ELSE IF loc \in DOMAIN db.routing /\ feature.tag.name \in DOMAIN db.routing[loc]
        THEN LET n == feature.tag.name \o "_" \o ToString(db.routing[loc][feature.tag.name].variant)
             IN  IF n \in DOMAIN db.segbits THEN [ok |-> TRUE, table |-> db.segbits[n]]
                 ELSE none
        ELSE none

\* The table has a pattern for the local name (NOT_ taken off its last
\* component) and the sub-index: the unindexed entry for sub-index 0 or
\* none, else the indexed one
HasPattern(table, local, start) ==
    LET base == [i \in 1..Len(local) |-> IF i = Len(local) THEN C(local[i][2]) ELSE local[i]]
    IN  /\ base \in DOMAIN table
        /\ \/ start \in {0, None} /\ None \in DOMAIN table[base]
           \/ (IF start = None THEN 0 ELSE start) \in DOMAIN table[base]

\* The record does not resolve: its block does not, or one of its single-bit
\* records with a value in `values` has no pattern
Unresolved(db, sf, values) ==
    \/ ~BlockTable(db, sf.feature).ok
    \/ \E one \in Range(canonical_features(sf)) :
         /\ one.value \in values
         /\ ~HasPattern(BlockTable(db, sf.feature).table, one.feature.local, one.start)

\* C23, as the spec states it: a FASM record is reported as an unknown
\* feature exactly when its feature does not resolve (block or pattern of any
\* of its single-bit records missing).
C23_AsStated ==
    \A n \in 1..Len(fasm_lines) :
        fasm_lines[n].has =>
            (log[n].out = "lookup" <=> Unresolved(database, fasm_lines[n].set_feature, {0, 1}))

\* C23, amended: a line is reported as an unknown feature exactly when it
\* holds a record, did not raise FeatureConflict, and its block does not
\* resolve or one of its single-bit records of value 1 has no pattern; the
\* reported lines are the unknown_features list, in order. Single-bit records
\* of value 0 are never looked up.
C23_UnknownFeatures ==
    /\ \A n \in 1..Len(fasm_lines) :
         log[n].out = "lookup" <=>
             /\ fasm_lines[n].has
             /\ log[n].out # "conflict"
             /\ Unresolved(database, fasm_lines[n].set_feature, {1})
    /\ \E picks \in {{n \in 1..Len(fasm_lines) : log[n].out = "lookup"}} :
         /\ Len(unknown_features) = Cardinality(picks)
         /\ \A k \in 1..Len(unknown_features) :
              \E n \in picks :
                  /\ Cardinality({o \in picks : o <= n}) = k
                  /\ unknown_features[k] = fasm_lines[n]

\* C23's case: a cleared record of a feature no table has was accepted, and
\* a set record of the same feature, whose block resolves, was reported
C23_Witness ==
    \E m, n \in 1..Len(fasm_lines) :
        /\ fasm_lines[m].has /\ fasm_lines[n].has
        /\ BlockTable(database, fasm_lines[m].set_feature.feature).ok
        /\ Unresolved(database, fasm_lines[m].set_feature, {0})
        /\ log[m].out = "ok"
        /\ fasm_lines[n].set_feature.feature = fasm_lines[m].set_feature.feature
        /\ log[n].out = "lookup"
        /\ unknown_features = << fasm_lines[n] >>

\* -------------------------------------------------------------------------
\* Failing lines

\* The assembler state after the first n lines of the input
AfterLine(n) ==
    assemble_bitstream(database, SubSeq(fasm_lines, 1, n), 1,
                       NewAssembler(database, default_bitstream)).asm

\* C26, as the spec states it: a line for which process_fasm_line raised
\* LookupError or FeatureConflict left the bit array, the feature table and
\* the per-address table as they were before the line.
C26_AsStated ==
    \A n \in 1..Len(fasm_lines) :
        log[n].out # "ok" => AfterLine(n) = AfterLine(n - 1)

\* -------------------------------------------------------------------------
\* Order of the lines

Orders(n) == {p \in [1..n -> 1..n] : \A i, j \in 1..n : i # j => p[i] # p[j]}

\* assemble_bitstream on a fresh assembler with the seed of the run
Assembled(lines) ==
    assemble_bitstream(database, lines, 1, NewAssembler(database, default_bitstream))

\* C27: assembling the lines of the input in any other order, from the same
\* seed, raises FeatureConflict iff this order did; when neither raises, the
\* final bit array and the set of unknown lines are the same. Processing
\* again a line that was processed without error raises nothing and leaves
\* bit array, tracking tables and unknown list as they are.
C27_OrderIndependence ==
    /\ \A p \in Orders(Len(fasm_lines)) :
         \A other \in {Assembled([i \in 1..Len(fasm_lines) |-> fasm_lines[p[i]]])} :
             /\ other.raised <=> Conflicted
             /\ ~Conflicted =>
                  /\ other.asm.bitstream = bitstream
                  /\ Range(other.unknown) = Range(unknown_features)
    /\ ~Conflicted =>
         \A n \in 1..Len(fasm_lines) :
             log[n].out = "ok" =>
                 \A again \in {assemble_step(database, fasm_lines[n],
                                  [asm |-> Asm(bitstream, features, features_by_bits),
                                   unknown |-> unknown_features, raised |-> FALSE])} :
                     /\ again.out = "ok"
                     /\ again.asm = Asm(bitstream, features, features_by_bits)
                     /\ again.unknown = unknown_features

\* C27's case: two different lines wrote the same address over a seed bit of
\* the other value, without conflict
C27_Witness ==
    /\ Len(fasm_lines) = 2 /\ fasm_lines[1] # fasm_lines[2]
    /\ ~Conflicted
    /\ default_bitstream.given
    /\ \E a \in DOMAIN features_by_bits :
         /\ features_by_bits[a] = {fasm_lines[1], fasm_lines[2]}
         /\ bitstream[a + 1] # default_bitstream.bits[a + 1]

\* C27's other case: the same line was processed twice
C27_Repeated ==
    /\ Len(fasm_lines) = 2 /\ fasm_lines[1] = fasm_lines[2]
    /\ log[1].out = "ok" /\ log[2].out = "ok"
    /\ features_by_bits # EmptyDict

\* -------------------------------------------------------------------------
\* Tile types

\* The line names a tile by a type that the tile at its location does not have
OtherType(db, line) ==
    LET f == line.set_feature.feature
    IN  /\ line.has /\ f.prefix = FEATURE_PREFIX /\ f.tag.m /\ f.tag.grid
        /\ <<f.tag.x, f.tag.y>> \in DOMAIN db.tiles
        /\ db.tiles[<<f.tag.x, f.tag.y>>].type # f.tag.name

\* C28, as the spec states it: a line that names the tile at (x, y) by
\* another type than the tile's is reported as an unknown feature and writes
\* no bit.
C28_AsStated ==
    \A n \in 1..Len(fasm_lines) :
        OtherType(database, fasm_lines[n]) =>
            /\ log[n].out = "lookup"
            /\ \A p \in 1..Len(log[n].ev) : log[n].ev[p].t # "bit"

\* -------------------------------------------------------------------------
\* Size of the decoded array

\* C30, as the spec states it: to_bits returns an array of bitstream_size
\* entries for every encoded input, shorter and longer ones included, so that
\* the size assertion of the disassembler holds.
C30_AsStated ==
    pc \in {"decoded", "redecoded"} => Len(decoded) = database.bitstream_size

\* -------------------------------------------------------------------------
\* The database builder

\* The pattern of a location's bits: (bit id - min bit id, local name)
PatternOfBits(bits) == { <<b[2] - MinOf({o[2] : o \in bits}), b[3]>> : b \in bits }

\* C24: while make_segbit_sets runs on the locations of a type, and when it
\* has returned, the sets found so far and the locations left partition the
\* input locations; every location of a set has the set's pattern and is
\* recorded with its region and its least bit id; no two sets have equal
\* patterns and no location left has the pattern of a set; every iteration
\* has claimed at least one location, so the loop ends after at most as many
\* iterations as there are locations.
C24_SegbitSets ==
    work.type # "" =>
        LET sets == work.segbit_sets
            by   == grouped_bits.bits[work.type]
            locs(i) == DOMAIN sets[i].offsets
        IN  /\ \A i \in DOMAIN sets : locs(i) # {} /\ locs(i) \cap work.locs = {}
            /\ \A i, j \in DOMAIN sets : i # j => locs(i) \cap locs(j) = {}
            /\ UNION {locs(i) : i \in DOMAIN sets} \cup work.locs = DOMAIN by
            /\ \A i \in DOMAIN sets : \A l \in locs(i) :
                 /\ Range(sets[i].segbits) = PatternOfBits(by[l])
                 /\ Len(sets[i].segbits) = Cardinality(by[l])
                 /\ \A b \in by[l] : sets[i].offsets[l][1] = b[1]
                 /\ sets[i].offsets[l][2] = MinOf({b[2] : b \in by[l]})
            /\ \A i, j \in DOMAIN sets :
                 i # j => Range(sets[i].segbits) # Range(sets[j].segbits)
            /\ \A i \in DOMAIN sets : \A l \in work.locs :
                 Range(sets[i].segbits) # PatternOfBits(by[l])
            /\ Len(sets) + Cardinality(work.locs) <= Cardinality(DOMAIN by)

\* C24's case: make_segbit_sets has returned two sets for three locations,
\* one of them with two locations at different offsets
C24_Witness ==
    /\ pc = "sets" /\ work.locs = {}
    /\ Cardinality(DOMAIN grouped_bits.bits[work.type]) = 3
    /\ Len(work.segbit_sets) = 2
    /\ \E i \in DOMAIN work.segbit_sets :
         \E l, o \in DOMAIN work.segbit_sets[i].offsets :
             /\ l # o
             /\ work.segbit_sets[i].offsets[l][2] # work.segbit_sets[i].offsets[o][2]
             /\ Len(work.segbit_sets[i].segbits) = 2

\* The entries of device.json with the type the XML names their block by
DeviceBlocks ==
    {[type |-> device.tiles[k].type, e |-> device.tiles[k]] : k \in DOMAIN device.tiles}
    \cup {[type |-> device.routing[k].type, e |-> device.routing[k]] : k \in DOMAIN device.routing}

\* The segbits file the builder wrote for a block of device.json
FileOfBlock(blk) ==
    IF blk \in {[type |-> device.tiles[k].type, e |-> device.tiles[k]] : k \in DOMAIN device.tiles}
    THEN files[BuilderFileName(blk.type, 0, 1)]
    ELSE files[BuilderFileName(blk.type, blk.e.variant,
                   Cardinality({device.routing[k].variant :
                       k \in {j \in DOMAIN device.routing : device.routing[j].type = blk.type}}))]

\* The bits of the XML that belong to a block
BitsOfBlock(blk) == {b \in fabric : b.type = blk.type /\ b.loc = <<blk.e.x, blk.e.y>>}

\* C25: in the database the builder wrote, every region has the least bit id
\* of its bits as offset and max - min + 1 as length; every block's offset is
\* at least 0; and the lines (name, i) of a block's segbits file are, one for
\* one, the bits of the block in the XML: region offset + block offset + i is
\* the bit's id, and lies inside the region.
C25_RegionInvariant ==
    device.written =>
        /\ {device.regions[k].id : k \in DOMAIN device.regions} = {b.region : b \in fabric}
        /\ \A k \in DOMAIN device.regions :
             \E ids \in {{b.id : b \in {x \in fabric : x.region = device.regions[k].id}}} :
                 /\ device.regions[k].offset = MinOf(ids)
                 /\ device.regions[k].length = Max(ids) - MinOf(ids) + 1
        /\ \A blk \in DeviceBlocks :
             \E k \in DOMAIN device.regions :
                 /\ device.regions[k].id = blk.e.region
                 /\ blk.e.offset >= 0
                 /\ Len(FileOfBlock(blk)) = Cardinality(BitsOfBlock(blk))
                 /\ \A n \in DOMAIN FileOfBlock(blk) :
                      \E address \in {device.regions[k].offset + blk.e.offset
                                          + FileOfBlock(blk)[n].offset} :
                          /\ \E b \in BitsOfBlock(blk) :
                               /\ b.id = address
                               /\ b.name = FileOfBlock(blk)[n].name
                               /\ b.region = blk.e.region
                          /\ address >= device.regions[k].offset
                          /\ address < device.regions[k].offset + device.regions[k].length

\* C25's case: a block with two bits that is not the first of its region, in
\* a region that does not start at bit 0
C25_Witness ==
    /\ device.written
    /\ \E blk \in DeviceBlocks : \E k \in DOMAIN device.regions :
         /\ device.regions[k].id = blk.e.region
         /\ device.regions[k].offset > 0
         /\ blk.e.offset > 0
         /\ Len(FileOfBlock(blk)) = 2

\* C29, as the spec states it: for every tile and every routing entry of the
\* device.json the builder wrote, the segbits file the loader opens for it is
\* a file the builder wrote.
C29_AsStated ==
    device.written =>
        /\ \A k \in DOMAIN device.tiles : TileFileName(device.tiles[k]) \in DOMAIN files
        /\ \A k \in DOMAIN device.routing : RoutingFileName(device.routing[k]) \in DOMAIN files

====
